---- MODULE Spec2Model ----
(***************************************************************************)
(* The contact-form endpoint (api/contact.js) and the page-translation     *)
(* script (assets/i18n/i18n.js) of susttech-site.                          *)
(*                                                                         *)
(* JavaScript strings are sequences of one-character strings, so that      *)
(* trim, toLowerCase, slice and the regular expressions of the handler are *)
(* computed on the characters.  Times are milliseconds, as Date.now().     *)
(***************************************************************************)
EXTENDS Integers, Sequences, FiniteSets, TLC

VARIABLES
    now,          \* Date.now()
    schedule,     \* the steps by which the clock has yet to advance
    env,          \* process.env
    hits,         \* let hits = []       (rate window)
    blocked,      \* let blocked = Map   (ip -> untilTs)
    badHits,      \* let badHits = []    (bad events)
    inflight,     \* invocations of handler suspended at an await
    res,          \* what the latest step of handler left: request, reply, calls
    page          \* the browser page running i18n.js

vars == << now, schedule, env, hits, blocked, badHits, inflight, res, page >>

contactVars == << now, schedule, env, hits, blocked, badHits, inflight, res >>

----------------------------------------------------------------------------
(* Bounds of the model *)

\* at most this many invocations are suspended at an await at once
MaxInFlight == 1

----------------------------------------------------------------------------
(* Characters and strings *)

Lower ==
    << "a", "b", "c", "d", "e", "f", "g", "h", "i", "j", "k", "l", "m",
       "n", "o", "p", "q", "r", "s", "t", "u", "v", "w", "x", "y", "z" >>

Upper ==
    << "A", "B", "C", "D", "E", "F", "G", "H", "I", "J", "K", "L", "M",
       "N", "O", "P", "Q", "R", "S", "T", "U", "V", "W", "X", "Y", "Z" >>

Digits == { "0", "1", "2", "3", "4", "5", "6", "7", "8", "9" }

Range(s) == { s[i] : i \in DOMAIN s }

isUpper(c) == c \in Range(Upper)

lowerChar(c) ==
    IF isUpper(c) THEN Lower[CHOOSE i \in DOMAIN Upper : Upper[i] = c] ELSE c

\* String.prototype.toLowerCase
toLowerCase(s) == [i \in DOMAIN s |-> lowerChar(s[i])]

\* \s of a regular expression
isSpace(c) == c \in { " ", "\t", "\n", "\r" }

\* [a-z] under the i flag
isLetter(c) == lowerChar(c) \in Range(Lower)

\* [aeiou] under the i flag
isVowel(c) == lowerChar(c) \in { "a", "e", "i", "o", "u" }

\* [bcdfghjklmnpqrstvwxyz] under the i flag
isConsonant(c) == isLetter(c) /\ ~isVowel(c)

\* [A-Za-z0-9+/=]
isBase64Char(c) == isLetter(c) \/ c \in Digits \/ c \in { "+", "/", "=" }

\* String.prototype.trim
trim(s) ==
    LET keep == { i \in DOMAIN s : ~isSpace(s[i]) }
    IN  IF keep = {} THEN << >>
        ELSE SubSeq(s, CHOOSE i \in keep : \A j \in keep : i <= j,
                       CHOOSE i \in keep : \A j \in keep : i >= j)

\* String.prototype.slice(0, n)
slice(s, n) == SubSeq(s, 1, IF Len(s) < n THEN Len(s) ELSE n)

\* whether sub occurs in s at position i
occursAt(s, sub, i) ==
    /\ i + Len(sub) - 1 <= Len(s)
    /\ \A k \in DOMAIN sub : s[i + k - 1] = sub[k]

\* String.prototype.includes
includes(s, sub) == \E i \in 1..(Len(s) + 1) : occursAt(s, sub, i)

\* s.replace(/[^a-z]/gi, "")
lettersOnly(s) == SelectSeq(s, isLetter)

\* (t.match(/[aeiou]/gi) || []).length
vowelCount(t) == Cardinality({ i \in DOMAIN t : isVowel(t[i]) })

\* content-type: application/json
CT_JSON ==
    << "a", "p", "p", "l", "i", "c", "a", "t", "i", "o", "n", "/", "j", "s", "o", "n" >>

\* content-type: Application/JSON; charset=utf-8
CT_JSON_UPPER ==
    << "A", "p", "p", "l", "i", "c", "a", "t", "i", "o", "n", "/", "J", "S", "O", "N",
       ";", " ", "c", "h", "a", "r", "s", "e", "t", "=", "u", "t", "f", "-", "8" >>

\* content-type: text/plain
CT_TEXT ==
    << "t", "e", "x", "t", "/", "p", "l", "a", "i", "n" >>

\* name: Jane Doe
NAME_OK ==
    << "J", "a", "n", "e", " ", "D", "o", "e" >>

\* name: Jane Doe, with two blanks before and one after
NAME_PADDED ==
    << " ", " ", "J", "a", "n", "e", " ", "D", "o", "e", " " >>

\* name: Jane (one word)
NAME_ONE_WORD ==
    << "J", "a", "n", "e" >>

\* name: Xkcd Qwrtz (two words, no vowel)
NAME_GIBBERISH ==
    << "X", "k", "c", "d", " ", "Q", "w", "r", "t", "z" >>

\* name: three blanks (empty after clean)
NAME_BLANK ==
    << " ", " ", " " >>

\* email: jane@example.com
EMAIL_OK ==
    << "j", "a", "n", "e", "@", "e", "x", "a", "m", "p", "l", "e", ".", "c", "o", "m" >>

\* email: Jane@Example.COM after one blank (valid once trimmed and lower-cased)
EMAIL_MIXED ==
    << " ", "J", "a", "n", "e", "@", "E", "x", "a", "m", "p", "l", "e", ".", "C", "O", "M" >>

\* email: not-an-email
EMAIL_BAD ==
    << "n", "o", "t", "-", "a", "n", "-", "e", "m", "a", "i", "l" >>

\* email: jane@example (no dot after the @)
EMAIL_NO_TLD ==
    << "j", "a", "n", "e", "@", "e", "x", "a", "m", "p", "l", "e" >>

\* organization: Acme Corp
ORG_OK ==
    << "A", "c", "m", "e", " ", "C", "o", "r", "p" >>

\* organization: Xzqwrtp
ORG_GIBBERISH ==
    << "X", "z", "q", "w", "r", "t", "p" >>

\* interest: Audit
INTEREST_OK ==
    << "A", "u", "d", "i", "t" >>

\* message: a plausible sentence of 49 characters
MSG_OK ==
    << "H", "e", "l", "l", "o", ",", " ", "w", "e", " ", "w", "o", "u", "l", "d", " ",
       "l", "i", "k", "e", " ", "a", " ", "q", "u", "o", "t", "e", " ", "f", "o", "r",
       " ", "a", "n", " ", "e", "n", "e", "r", "g", "y", " ", "a", "u", "d", "i", "t", "." >>

\* message: a plausible sentence of 14 characters
MSG_SHORT ==
    << "P", "l", "e", "a", "s", "e", " ", "c", "a", "l", "l", " ", "m", "e" >>

\* message: a base64 blob of 24 characters whose letters pass the vowel and consonant rules
MSG_BASE64 ==
    << "N", "G", "C", "+", "M", "S", "A", "e", "a", "f", "7", "a", "o", "O", "7", "o",
       "u", "Z", "l", "/", "X", "A", "=", "=" >>

\* message: a base64 blob of 28 characters
\* message: three URLs
MSG_URLS ==
    << "S", "e", "e", " ", "h", "t", "t", "p", ":", "/", "/", "a", ".", "i", "o", " ",
       "o", "r", " ", "h", "t", "t", "p", ":", "/", "/", "e", ".", "i", "o", " ", "o",
       "r", " ", "h", "t", "t", "p", ":", "/", "/", "o", ".", "i", "o", " ", "p", "l",
       "e", "a", "s", "e" >>

\* message: two URLs
MSG_TWO_URLS ==
    << "S", "e", "e", " ", "h", "t", "t", "p", ":", "/", "/", "a", ".", "i", "o", " ",
       "o", "r", " ", "h", "t", "t", "p", ":", "/", "/", "e", ".", "i", "o", " ", "p",
       "l", "e", "a", "s", "e" >>

\* honeypot: bot
GOTCHA_FILLED ==
    << "b", "o", "t" >>

\* honeypot: two blanks
GOTCHA_BLANK ==
    << " ", " " >>


----------------------------------------------------------------------------
(* Field validation of handler *)

MAX_MESSAGE_LEN == 5000

MAX_NAME_LEN == 120

MAX_ORG_LEN == 200

MAX_INTEREST_LEN == 80

\* const clean = s => String(s || "").trim()
clean(s) == trim(s)

\* [^\s@]+ matched against the whole of s[from..to]
plainRun(s, from, to) ==
    /\ from <= to
    /\ \A k \in from..to : ~isSpace(s[k]) /\ s[k] # "@"

\* /^[^\s@]+@[^\s@]+\.[^\s@]+$/.test(s)
emailRegex(s) ==
    \E i \in DOMAIN s : \E j \in DOMAIN s :
        /\ i < j
        /\ s[i] = "@"
        /\ s[j] = "."
        /\ plainRun(s, 1, i - 1)
        /\ plainRun(s, i + 1, j - 1)
        /\ plainRun(s, j + 1, Len(s))

\* /\S+\s+\S+/.test(s)
hasTwoWords(s) ==
    \E i \in DOMAIN s : \E k \in DOMAIN s :
        /\ i + 1 < k
        /\ ~isSpace(s[i])
        /\ ~isSpace(s[k])
        /\ \A j \in (i + 1)..(k - 1) : isSpace(s[j])

\* (s.match(/https?:\/\//gi) || []).length
urlCount(s) ==
    LET l == toLowerCase(s)
    IN  Cardinality({ i \in DOMAIN s :
                        \/ occursAt(l, << "h", "t", "t", "p", ":", "/", "/" >>, i)
                        \/ occursAt(l, << "h", "t", "t", "p", "s", ":", "/", "/" >>, i) })

\* s => (s.match(/https?:\/\//gi) || []).length > 2
tooManyUrls(s) == urlCount(s) > 2

\* /[bcdfghjklmnpqrstvwxyz]{6,}/i.test(t)
consonantRun(t) ==
    \E i \in DOMAIN t :
        /\ i + 5 <= Len(t)
        /\ \A k \in i..(i + 5) : isConsonant(t[k])

\* /^[A-Za-z0-9+/=]{20,}$/.test(s)
base64Like(s) == Len(s) >= 20 /\ \A i \in DOMAIN s : isBase64Char(s[i])

\* ratio < 0.15 || ratio > 0.7, with ratio = vow / t.length and t not empty
ratioOutOfBounds(vow, len) == vow * 100 < 15 * len \/ vow * 10 > 7 * len

\* looksGibberish without the test for a base64-like blob
looksGibberish_noBase64(s) ==
    LET t == lettersOnly(s)
    IN  \/ t = << >>
        \/ ratioOutOfBounds(vowelCount(t), Len(t))
        \/ consonantRun(t)

looksGibberish(s) ==
    LET t == lettersOnly(s)
    IN  \/ t = << >>
        \/ ratioOutOfBounds(vowelCount(t), Len(t))
        \/ consonantRun(t)
        \/ base64Like(s)

----------------------------------------------------------------------------
(* Abuse tracker *)

WINDOW_MS == 60 * 1000

MAX_PER_WINDOW == 5

BLOCK_MS == 60 * 60 * 1000

\* the window of markBad: 10 * 60 * 1000
BAD_WINDOW_MS == 10 * 60 * 1000

\* the count at which markBad calls punish
BAD_LIMIT == 8

\* hits.filter(h => h.ip === ip).length
countFor(list, ip) == Len(SelectSeq(list, LAMBDA h : h.ip = ip))

\* hits.filter(h => now - h.time < WINDOW_MS)
pruneHits(h, t) == SelectSeq(h, LAMBDA e : t - e.time < WINDOW_MS)

\* rateLimited without the filter on the age of the entries
rateLimited_noPrune(h, ip, t) ==
    IF countFor(h, ip) >= MAX_PER_WINDOW
    THEN [ret |-> TRUE, hits |-> h]
    ELSE [ret |-> FALSE, hits |-> Append(h, [ip |-> ip, time |-> t])]

\* rateLimited that records the attempt it rejects
rateLimited_recordsRejected(h, ip, t) ==
    LET kept == pruneHits(h, t)
    IN  [ret |-> countFor(kept, ip) >= MAX_PER_WINDOW,
         hits |-> Append(kept, [ip |-> ip, time |-> t])]

\* rateLimited that counts the entries of every IP
rateLimited_global(h, ip, t) ==
    LET kept == pruneHits(h, t)
    IN  IF Len(kept) >= MAX_PER_WINDOW
        THEN [ret |-> TRUE, hits |-> kept]
        ELSE [ret |-> FALSE, hits |-> Append(kept, [ip |-> ip, time |-> t])]

\* rateLimited with count > MAX_PER_WINDOW for count >= MAX_PER_WINDOW
rateLimited_offByOne(h, ip, t) ==
    LET kept == pruneHits(h, t)
    IN  IF countFor(kept, ip) > MAX_PER_WINDOW
        THEN [ret |-> TRUE, hits |-> kept]
        ELSE [ret |-> FALSE, hits |-> Append(kept, [ip |-> ip, time |-> t])]

\* rateLimited(ip) at time t on hits h: the value returned and the new hits
rateLimited(h, ip, t) ==
    LET kept == pruneHits(h, t)
    IN  IF countFor(kept, ip) >= MAX_PER_WINDOW
        THEN [ret |-> TRUE, hits |-> kept]
        ELSE [ret |-> FALSE, hits |-> Append(kept, [ip |-> ip, time |-> t])]

\* blocked.delete(ip)
mapDelete(b, ip) == [x \in DOMAIN b \ {ip} |-> b[x]]

\* blocked.set(ip, until)
mapSet(b, ip, until) == [x \in DOMAIN b \cup {ip} |-> IF x = ip THEN until ELSE b[x]]

\* isBlocked with now <= until for now < until
isBlocked_inclusive(b, ip, t) ==
    IF ip \in DOMAIN b /\ t <= b[ip]
    THEN [ret |-> TRUE, blocked |-> b]
    ELSE IF ip \in DOMAIN b
         THEN [ret |-> FALSE, blocked |-> mapDelete(b, ip)]
         ELSE [ret |-> FALSE, blocked |-> b]

\* isBlocked that leaves an expired entry in the map
isBlocked_keepsExpired(b, ip, t) ==
    [ret |-> ip \in DOMAIN b /\ t < b[ip], blocked |-> b]

\* isBlocked(ip) at time t on the map b: the value returned and the new map
isBlocked(b, ip, t) ==
    IF ip \in DOMAIN b /\ t < b[ip]
    THEN [ret |-> TRUE, blocked |-> b]
    ELSE IF ip \in DOMAIN b /\ t >= b[ip]
         THEN [ret |-> FALSE, blocked |-> mapDelete(b, ip)]
         ELSE [ret |-> FALSE, blocked |-> b]

\* punish(ip) at time t, with the default ms = BLOCK_MS
punish(b, ip, t) == mapSet(b, ip, t + BLOCK_MS)

\* badHits.filter(h => now - h.time < 10 * 60 * 1000)
pruneBad(bh, t) == SelectSeq(bh, LAMBDA e : t - e.time < BAD_WINDOW_MS)

\* markBad that counts the bad events of every IP
markBad_anyIp(bh, b, ip, t) ==
    LET kept == pruneBad(Append(bh, [ip |-> ip, time |-> t]), t)
    IN  [badHits |-> kept,
         blocked |-> IF Len(kept) >= BAD_LIMIT THEN punish(b, ip, t) ELSE b]

\* markBad(ip) at time t: the new badHits and the new blocked
markBad(bh, b, ip, t) ==
    LET kept == pruneBad(Append(bh, [ip |-> ip, time |-> t]), t)
    IN  [badHits |-> kept,
         blocked |-> IF countFor(kept, ip) >= BAD_LIMIT THEN punish(b, ip, t) ELSE b]

----------------------------------------------------------------------------
(* Requests *)

\* the empty string, which is also how an absent field or header is written:
\* both are falsy, and the destructuring defaults of handler turn an absent
\* field into ""
EmptyStr == << >>

\* JavaScript truthiness of a string
truthy(s) == s # EmptyStr

\* a || b on strings
or(a, b) == IF truthy(a) THEN a ELSE b

\* truthiness of an environment variable or of an address (atoms, "" when unset)
isSet(x) == x # ""

\* a || b on environment variables and addresses
orElse(a, b) == IF isSet(a) THEN a ELSE b

Body(label, name, email, organization, org, interest, message, gotcha, token) ==
    [label |-> label, name |-> name, email |-> email,
     organization |-> organization, org |-> org, interest |-> interest,
     topic |-> EmptyStr, message |-> message,
     _gotcha |-> gotcha, token |-> token]

\* the destructuring defaults of handler: every absent field is ""
EMPTY_BODY ==
    Body("empty", EmptyStr, EmptyStr, EmptyStr, EmptyStr, EmptyStr, EmptyStr, EmptyStr,
         EmptyStr)

TOKEN == << "t", "o", "k" >>

B_VALID ==
    Body("valid", NAME_OK, EMAIL_OK, EmptyStr, EmptyStr, INTEREST_OK, MSG_OK, EmptyStr,
         TOKEN)

B_VALID_MIXED ==
    Body("valid-mixed", NAME_PADDED, EMAIL_MIXED, EmptyStr, ORG_OK, EmptyStr,
         MSG_TWO_URLS,
         GOTCHA_BLANK, TOKEN)

B_NO_TOKEN ==
    Body("no-token", NAME_OK, EMAIL_OK, ORG_OK, EmptyStr, INTEREST_OK, MSG_OK,
         EmptyStr, EmptyStr)

B_HONEYPOT ==
    Body("honeypot", NAME_OK, EMAIL_OK, EmptyStr, EmptyStr, INTEREST_OK, MSG_OK,
         GOTCHA_FILLED, TOKEN)

B_HONEYPOT_BAD ==
    Body("honeypot-bad", EmptyStr, EMAIL_BAD, ORG_GIBBERISH, EmptyStr, EmptyStr,
         MSG_BASE64,
         GOTCHA_FILLED, EmptyStr)

B_NO_NAME_BAD_EMAIL ==
    Body("no-name-bad-email", NAME_BLANK, EMAIL_BAD, EmptyStr, EmptyStr, EmptyStr, MSG_OK,
         EmptyStr, TOKEN)

B_BAD_EMAIL ==
    Body("bad-email", NAME_OK, EMAIL_NO_TLD, ORG_OK, EmptyStr, INTEREST_OK, MSG_OK,
         EmptyStr, TOKEN)

B_BAD_EMAIL_REST_BAD ==
    Body("bad-email-rest-bad", NAME_ONE_WORD, EMAIL_BAD, ORG_GIBBERISH, EmptyStr,
         EmptyStr,
         MSG_SHORT, EmptyStr, TOKEN)

B_ONE_WORD_NAME ==
    Body("one-word-name", NAME_ONE_WORD, EMAIL_OK, EmptyStr, EmptyStr, EmptyStr,
         MSG_OK, EmptyStr, TOKEN)

B_GIBBERISH_NAME ==
    Body("gibberish-name", NAME_GIBBERISH, EMAIL_OK, ORG_GIBBERISH, EmptyStr, EmptyStr,
         MSG_SHORT,
         EmptyStr, TOKEN)

B_BAD_ORG ==
    Body("bad-org", NAME_OK, EMAIL_OK, EmptyStr, ORG_GIBBERISH, EmptyStr, MSG_URLS,
         EmptyStr, TOKEN)

B_SHORT_MSG ==
    Body("short-msg", NAME_OK, EMAIL_OK, ORG_OK, EmptyStr, EmptyStr, MSG_SHORT,
         EmptyStr, TOKEN)

B_URLS_MSG ==
    Body("urls-msg", NAME_OK, EMAIL_OK, EmptyStr, EmptyStr, EmptyStr, MSG_URLS,
         EmptyStr, TOKEN)

B_BASE64_MSG ==
    Body("base64-msg", NAME_OK, EMAIL_OK, EmptyStr, EmptyStr, EmptyStr, MSG_BASE64,
         EmptyStr, TOKEN)

\* the caller's addresses
IP_A == "203.0.113.7"

IP_PROXY == "198.51.100.1"

UNKNOWN == "unknown"

IPs == { IP_A, UNKNOWN }

\* a request: method, the content-type header, the x-forwarded-for header (its
\* comma-separated parts, each already trimmed; << >> when the header is absent),
\* socket.remoteAddress ("" when absent), and req.body: an object, null, or a
\* getter that throws ("object", "null", "throws").  id names the request in the
\* state.
Req(id, method, ctype, xff, remote, bodyKind, body) ==
    [id |-> id, method |-> method, ctype |-> ctype, xff |-> xff, remote |-> remote,
     bodyKind |-> bodyKind, body |-> body]

\* req.headers["x-forwarded-for"]?.split(",")[0]?.trim() || req.socket?.remoteAddress
\*   || "unknown"
clientIp(req) ==
    LET first == IF req.xff = << >> THEN "" ELSE req.xff[1]
    IN  orElse(first, orElse(req.remote, UNKNOWN))

----------------------------------------------------------------------------
(* handler: the environment, the responses, the field checks *)

Env(smtpUser, smtpPass, m365User, m365Pass, contactTo, smtpTo) ==
    [SMTP_USER |-> smtpUser, SMTP_PASS |-> smtpPass, M365_USER |-> m365User,
     M365_PASS |-> m365Pass, CONTACT_TO |-> contactTo, SMTP_TO |-> smtpTo]

ENV_SMTP == Env("mailer@susttech.com", "secret", "", "", "info@susttech.com", "")

ENV_M365 == Env("", "", "diego@susttech.com", "app-password", "", "")

ENV_NO_PASS == Env("mailer@susttech.com", "", "", "", "", "sales@susttech.com")

Envs == { ENV_SMTP, ENV_M365, ENV_NO_PASS }

\* process.env.SMTP_USER || process.env.M365_USER
SMTP_USER(e) == orElse(e.SMTP_USER, e.M365_USER)

\* process.env.SMTP_PASS || process.env.M365_PASS
SMTP_PASS(e) == orElse(e.SMTP_PASS, e.M365_PASS)

\* process.env.CONTACT_TO || process.env.SMTP_TO || SMTP_USER
CONTACT_TO(e) == orElse(e.CONTACT_TO, orElse(e.SMTP_TO, SMTP_USER(e)))

\* return res.status(status).json({ ok, error }): handler ends with one response
Reply(status, ok, error) ==
    [done |-> TRUE, status |-> status, ok |-> ok, error |-> error, responses |-> 1,
     thrown |-> FALSE]

\* handler is suspended at an await: no response yet
Suspended ==
    [done |-> FALSE, status |-> 0, ok |-> FALSE, error |-> "", responses |-> 0,
     thrown |-> FALSE]

\* handler without its catch: the exception leaves it and nothing is sent back
catch_rethrow ==
    [done |-> TRUE, status |-> 0, ok |-> FALSE, error |-> "", responses |-> 0,
     thrown |-> TRUE]

\* an exception was thrown inside the try block:
\* catch (err) { return res.status(500).json({ ok: false, error: `Server error: ...` }) }
catch == [Reply(500, FALSE, "Server error") EXCEPT !.thrown = TRUE]

vName(body) == slice(clean(body.name), MAX_NAME_LEN)

vEmail(body) == toLowerCase(clean(body.email))

vOrg(body) == slice(clean(or(body.organization, body.org)), MAX_ORG_LEN)

vInterest(body) == slice(clean(or(body.interest, body.topic)), MAX_INTEREST_LEN)

vMessage(body) == slice(clean(body.message), MAX_MESSAGE_LEN)

\* if (_gotcha && String(_gotcha).trim())
honeypot(body) == truthy(body._gotcha) /\ truthy(trim(body._gotcha))

\* if (!vName || !vEmail || !vMessage)
requiredMissing(body) ==
    ~truthy(vName(body)) \/ ~truthy(vEmail(body)) \/ ~truthy(vMessage(body))

\* if (!hasTwoWords(vName) || looksGibberish(vName))
nameInvalid(body) == ~hasTwoWords(vName(body)) \/ looksGibberish(vName(body))

\* if (vOrg && looksGibberish(vOrg))
orgInvalid(body) == truthy(vOrg(body)) /\ looksGibberish(vOrg(body))

\* if (vMessage.length < 20 || tooManyUrls(vMessage) || looksGibberish(vMessage))
messageInvalid(body) ==
    \/ Len(vMessage(body)) < 20
    \/ tooManyUrls(vMessage(body))
    \/ looksGibberish(vMessage(body))

\* validate with the check of the name before the check of the email
validate_nameFirst(body) ==
    IF requiredMissing(body)
    THEN [error |-> "name, email and message are required.", bad |-> FALSE]
    ELSE IF nameInvalid(body)
    THEN [error |-> "Invalid name.", bad |-> TRUE]
    ELSE IF ~emailRegex(vEmail(body))
    THEN [error |-> "Invalid email.", bad |-> TRUE]
    ELSE IF orgInvalid(body)
    THEN [error |-> "Invalid organization.", bad |-> TRUE]
    ELSE IF messageInvalid(body)
    THEN [error |-> "Invalid message.", bad |-> TRUE]
    ELSE [error |-> "", bad |-> FALSE]

\* the field checks of handler, in order: the error of the first that fails ("" when
\* none does) and whether that check calls markBad
validate(body) ==
    IF requiredMissing(body)
    THEN [error |-> "name, email and message are required.", bad |-> FALSE]
    ELSE IF ~emailRegex(vEmail(body))
    THEN [error |-> "Invalid email.", bad |-> TRUE]
    ELSE IF nameInvalid(body)
    THEN [error |-> "Invalid name.", bad |-> TRUE]
    ELSE IF orgInvalid(body)
    THEN [error |-> "Invalid organization.", bad |-> TRUE]
    ELSE IF messageInvalid(body)
    THEN [error |-> "Invalid message.", bad |-> TRUE]
    ELSE [error |-> "", bad |-> FALSE]

----------------------------------------------------------------------------
(* The requests of the model *)

\* the callers: behind a proxy, and connected directly
H_A ==
    [label |-> "a", ctype |-> CT_JSON_UPPER, xff |-> << IP_A, IP_PROXY >>,
     remote |-> IP_PROXY]

H_A_DIRECT == [label |-> "a-direct", ctype |-> CT_JSON, xff |-> << >>, remote |-> IP_A]

\* a POST of body by the caller h
Post(h, body) ==
    Req(h.label \o "/" \o body.label, "POST", h.ctype, h.xff, h.remote, "object", body)

\* the bodies whose requests reach the fetch of the Turnstile verification
TokenBodies ==
    { B_VALID, B_VALID_MIXED, B_NO_NAME_BAD_EMAIL, B_BAD_EMAIL, B_BAD_EMAIL_REST_BAD,
      B_ONE_WORD_NAME, B_GIBBERISH_NAME, B_BAD_ORG, B_SHORT_MSG, B_URLS_MSG,
      B_BASE64_MSG }

R_GET == Req("get", "GET", CT_JSON, << IP_A >>, "", "object", B_VALID)

R_NO_CTYPE == Req("no-ctype/honeypot", "POST", EmptyStr, << >>, IP_A, "object", B_HONEYPOT)

R_TEXT == Req("text/valid", "POST", CT_TEXT, << IP_A >>, "", "object", B_VALID)

R_BODY_THROWS == Req("body-throws", "POST", CT_JSON, << IP_A >>, "", "throws", EMPTY_BODY)

\* the requests of the sequential specification
AllRequests ==
    { Post(H_A, b) : b \in TokenBodies \cup { B_NO_TOKEN, B_HONEYPOT, B_HONEYPOT_BAD } }
    \cup { Post(H_A_DIRECT, B_NO_TOKEN) }
    \cup { R_GET, R_NO_CTYPE, R_TEXT, R_BODY_THROWS }

\* the requests of the interleaved specification
CoreRequests == { Post(H_A, B_NO_TOKEN), Post(H_A, B_VALID) }

RequestIds == { r.id : r \in AllRequests }

Request == [id \in RequestIds |-> CHOOSE r \in AllRequests : r.id = id]

\* the body handler destructures: req.body || {}
bodyOf(req) == IF req.bodyKind = "object" THEN req.body ELSE EMPTY_BODY

\* ctype.includes("application/json"), ctype the lower-cased content-type header
isJson(req) == includes(toLowerCase(req.ctype), CT_JSON)

\* what handler computes from the request alone
parse(req) ==
    [method     |-> req.method,
     isJson     |-> isJson(req),
     bodyThrows |-> req.bodyKind = "throws",
     honeypot   |-> honeypot(bodyOf(req)),
     ip         |-> clientIp(req),
     hasToken   |-> truthy(bodyOf(req).token),
     check      |-> validate(bodyOf(req)),
     replyTo    |-> vEmail(bodyOf(req))]

\* parse, computed once for each request of the model
Parsed == [id \in RequestIds |-> parse(Request[id])]

\* mailOf with the sender taken from SMTP_USER alone
mailOf_envUserOnly(id, e) ==
    [from |-> [name |-> "SustTech Contact", address |-> e.SMTP_USER],
     to |-> CONTACT_TO(e),
     replyTo |-> Parsed[id].replyTo]

\* the argument of transporter.sendMail (subject, text and html are left out)
mailOf(id, e) ==
    [from |-> [name |-> "SustTech Contact", address |-> SMTP_USER(e)],
     to |-> CONTACT_TO(e),
     replyTo |-> Parsed[id].replyTo]

----------------------------------------------------------------------------
(* handler: the steps between its awaits *)

\* a slot of inflight that holds no invocation
Idle == [pc |-> "idle", req |-> "", ip |-> "", calls |-> << >>, mails |-> << >>]

\* what the latest step of handler left: the request (its id), the step ("entry",
\* "fetch", "json", "verify", "send"), the ip computed ("" before it is), the reply,
\* the external calls made so far and the arguments of the sendMail calls
Outcome(id, step, ip, reply, calls, mails) ==
    [req |-> id, step |-> step, ip |-> ip, done |-> reply.done,
     status |-> reply.status, ok |-> reply.ok, error |-> reply.error,
     responses |-> reply.responses, thrown |-> reply.thrown,
     calls |-> calls, mails |-> mails]

\* res before any request
NoRes == Outcome("", "", "", Suspended, << >>, << >>)

\* a step of handler: its reply (or Suspended), the ip, and the tracker as it leaves it
Step(reply, ip, h, b, bh) ==
    [reply |-> reply, ip |-> ip, hits |-> h, blocked |-> b, badHits |-> bh]

\* entry with the honeypot looked at after the rate limit
entry_honeypotAfterRate(id, h, b, bh, t) ==
    LET p   == Parsed[id]
        ip  == p.ip
        blk == isBlocked(b, ip, t)
        rl  == rateLimited(h, ip, t)
        mb  == markBad(bh, blk.blocked, ip, t)
    IN  IF p.method # "POST"
        THEN Step(Reply(405, FALSE, "Method not allowed"), "", h, b, bh)
        ELSE IF ~p.isJson
        THEN Step(Reply(400, FALSE, "Send JSON body"), "", h, b, bh)
        ELSE IF p.bodyThrows
        THEN Step(catch, "", h, b, bh)
        ELSE IF blk.ret
        THEN Step(Reply(403, FALSE, "IP temporarily blocked."), ip, h, blk.blocked, bh)
        ELSE IF rl.ret
        THEN Step(Reply(429, FALSE, "Too many requests, try again later."), ip,
                  rl.hits, blk.blocked, bh)
        ELSE IF p.honeypot
        THEN Step(Reply(200, TRUE, ""), "", rl.hits, blk.blocked, bh)
        ELSE IF ~p.hasToken
        THEN Step(Reply(400, FALSE, "missing_turnstile_token"), ip,
                  rl.hits, mb.blocked, mb.badHits)
        ELSE Step(Suspended, ip, rl.hits, blk.blocked, bh)

\* entry with the rate limit applied before the block is looked up
entry_rateBeforeBlock(id, h, b, bh, t) ==
    LET p   == Parsed[id]
        ip  == p.ip
        blk == isBlocked(b, ip, t)
        rl  == rateLimited(h, ip, t)
        mb  == markBad(bh, blk.blocked, ip, t)
    IN  IF p.method # "POST"
        THEN Step(Reply(405, FALSE, "Method not allowed"), "", h, b, bh)
        ELSE IF ~p.isJson
        THEN Step(Reply(400, FALSE, "Send JSON body"), "", h, b, bh)
        ELSE IF p.bodyThrows
        THEN Step(catch, "", h, b, bh)
        ELSE IF p.honeypot
        THEN Step(Reply(200, TRUE, ""), "", h, b, bh)
        ELSE IF rl.ret
        THEN Step(Reply(429, FALSE, "Too many requests, try again later."), ip,
                  rl.hits, b, bh)
        ELSE IF blk.ret
        THEN Step(Reply(403, FALSE, "IP temporarily blocked."), ip, rl.hits, blk.blocked, bh)
        ELSE IF ~p.hasToken
        THEN Step(Reply(400, FALSE, "missing_turnstile_token"), ip,
                  rl.hits, mb.blocked, mb.badHits)
        ELSE Step(Suspended, ip, rl.hits, blk.blocked, bh)

\* entry with the test of the token before the block and rate gates
entry_tokenBeforeRate(id, h, b, bh, t) ==
    LET p   == Parsed[id]
        ip  == p.ip
        blk == isBlocked(b, ip, t)
        rl  == rateLimited(h, ip, t)
        mb  == markBad(bh, b, ip, t)
    IN  IF p.method # "POST"
        THEN Step(Reply(405, FALSE, "Method not allowed"), "", h, b, bh)
        ELSE IF ~p.isJson
        THEN Step(Reply(400, FALSE, "Send JSON body"), "", h, b, bh)
        ELSE IF p.bodyThrows
        THEN Step(catch, "", h, b, bh)
        ELSE IF p.honeypot
        THEN Step(Reply(200, TRUE, ""), "", h, b, bh)
        ELSE IF ~p.hasToken
        THEN Step(Reply(400, FALSE, "missing_turnstile_token"), ip,
                  h, mb.blocked, mb.badHits)
        ELSE IF blk.ret
        THEN Step(Reply(403, FALSE, "IP temporarily blocked."), ip, h, blk.blocked, bh)
        ELSE IF rl.ret
        THEN Step(Reply(429, FALSE, "Too many requests, try again later."), ip,
                  rl.hits, blk.blocked, bh)
        ELSE Step(Suspended, ip, rl.hits, blk.blocked, bh)

\* entry with markBad(ip) on the rejection by the rate limit
entry_markBadOnRateLimit(id, h, b, bh, t) ==
    LET p   == Parsed[id]
        ip  == p.ip
        blk == isBlocked(b, ip, t)
        rl  == rateLimited(h, ip, t)
        mb  == markBad(bh, blk.blocked, ip, t)
    IN  IF p.method # "POST"
        THEN Step(Reply(405, FALSE, "Method not allowed"), "", h, b, bh)
        ELSE IF ~p.isJson
        THEN Step(Reply(400, FALSE, "Send JSON body"), "", h, b, bh)
        ELSE IF p.bodyThrows
        THEN Step(catch, "", h, b, bh)
        ELSE IF p.honeypot
        THEN Step(Reply(200, TRUE, ""), "", h, b, bh)
        ELSE IF blk.ret
        THEN Step(Reply(403, FALSE, "IP temporarily blocked."), ip, h, blk.blocked, bh)
        ELSE IF rl.ret
        THEN Step(Reply(429, FALSE, "Too many requests, try again later."), ip,
                  rl.hits, mb.blocked, mb.badHits)
        ELSE IF ~p.hasToken
        THEN Step(Reply(400, FALSE, "missing_turnstile_token"), ip,
                  rl.hits, mb.blocked, mb.badHits)
        ELSE Step(Suspended, ip, rl.hits, blk.blocked, bh)

\* handler from its entry to the fetch of the Turnstile verification
entry(id, h, b, bh, t) ==
    LET p   == Parsed[id]
        ip  == p.ip
        blk == isBlocked(b, ip, t)
        rl  == rateLimited(h, ip, t)
        mb  == markBad(bh, blk.blocked, ip, t)
    IN  IF p.method # "POST"
        THEN Step(Reply(405, FALSE, "Method not allowed"), "", h, b, bh)
        ELSE IF ~p.isJson
        THEN Step(Reply(400, FALSE, "Send JSON body"), "", h, b, bh)
        ELSE IF p.bodyThrows
        THEN Step(catch, "", h, b, bh)
        ELSE IF p.honeypot
        THEN Step(Reply(200, TRUE, ""), "", h, b, bh)
        ELSE IF blk.ret
        THEN Step(Reply(403, FALSE, "IP temporarily blocked."), ip, h, blk.blocked, bh)
        ELSE IF rl.ret
        THEN Step(Reply(429, FALSE, "Too many requests, try again later."), ip,
                  rl.hits, blk.blocked, bh)
        ELSE IF ~p.hasToken
        THEN Step(Reply(400, FALSE, "missing_turnstile_token"), ip,
                  rl.hits, mb.blocked, mb.badHits)
        ELSE Step(Suspended, ip, rl.hits, blk.blocked, bh)

\* handler after the fetch settles: resolved, it awaits verifyRes.json()
afterFetch(resolved) == IF resolved THEN Suspended ELSE catch

\* handler from the result of verifyRes.json() to transporter.verify():
\* json is "throws", "failure" (data.success falsy) or "success";
\* transport is whether nodemailer.createTransport returns ("ok") or throws
afterJson(id, ip, json, transport, e, h, b, bh, t) ==
    LET v  == Parsed[id].check
        mb == markBad(bh, b, ip, t)
    IN  IF json = "throws"
        THEN Step(catch, ip, h, b, bh)
        ELSE IF json = "failure"
        THEN Step(Reply(400, FALSE, "turnstile_failed"), ip, h, mb.blocked, mb.badHits)
        ELSE IF v.error # ""
        THEN IF v.bad
             THEN Step(Reply(400, FALSE, v.error), ip, h, mb.blocked, mb.badHits)
             ELSE Step(Reply(400, FALSE, v.error), ip, h, b, bh)
        ELSE IF ~isSet(SMTP_USER(e)) \/ ~isSet(SMTP_PASS(e))
        THEN Step(Reply(500, FALSE, "SMTP credentials missing."), ip, h, b, bh)
        ELSE IF transport = "throws"
        THEN Step(catch, ip, h, b, bh)
        ELSE Step(Suspended, ip, h, b, bh)

\* afterVerify with the result of the pre-flight check ignored
afterVerify_ignored(ok) == Suspended

\* handler after transporter.verify() settles: resolved, it calls sendMail
afterVerify(ok) ==
    IF ok THEN Suspended ELSE Reply(500, FALSE, "SMTP verify failed")

\* handler after transporter.sendMail() settles
afterSend(ok) ==
    IF ok THEN Reply(200, TRUE, "") ELSE Reply(500, FALSE, "SMTP send failed")

FreeSlots == { s \in DOMAIN inflight : inflight[s].pc = "idle" }

\* a request arrives: handler runs to its first await or to its response
Arrive(id) ==
    LET out == entry(id, hits, blocked, badHits, now)
    IN  /\ hits' = out.hits
        /\ blocked' = out.blocked
        /\ badHits' = out.badHits
        /\ IF out.reply.done
           THEN /\ res' = Outcome(id, "entry", out.ip, out.reply, << >>, << >>)
                /\ UNCHANGED inflight
           ELSE /\ FreeSlots # {}
                /\ LET s == CHOOSE x \in FreeSlots : \A y \in FreeSlots : x <= y
                   IN  inflight' = [inflight EXCEPT ![s] =
                           [pc |-> "fetch", req |-> id, ip |-> out.ip,
                            calls |-> << "fetch" >>, mails |-> << >>]]
                /\ res' = Outcome(id, "entry", out.ip, out.reply, << "fetch" >>, << >>)
        /\ UNCHANGED << now, schedule, env, page >>

\* slot s goes on with pc, calls and mails, or is freed when handler has replied
Continue(s, reply, pc, calls, mails) ==
    IF reply.done
    THEN inflight' = [inflight EXCEPT ![s] = Idle]
    ELSE inflight' = [inflight EXCEPT ![s].pc = pc, ![s].calls = calls,
                                      ![s].mails = mails]

\* the fetch of the Turnstile verification settles
FetchReturn(s, resolved) ==
    LET r     == inflight[s]
        reply == afterFetch(resolved)
        calls == IF reply.done THEN r.calls ELSE Append(r.calls, "json")
    IN  /\ r.pc = "fetch"
        /\ Continue(s, reply, "json", calls, r.mails)
        /\ res' = Outcome(r.req, "fetch", r.ip, reply, calls, r.mails)
        /\ UNCHANGED << now, schedule, env, hits, blocked, badHits, page >>

\* verifyRes.json() settles: handler runs to transporter.verify() or to its response
JsonReturn(s, json, transport) ==
    LET r     == inflight[s]
        out   == afterJson(r.req, r.ip, json, transport, env, hits, blocked, badHits, now)
        calls == IF out.reply.done THEN r.calls
                 ELSE r.calls \o << "createTransport", "verify" >>
    IN  /\ r.pc = "json"
        /\ hits' = out.hits
        /\ blocked' = out.blocked
        /\ badHits' = out.badHits
        /\ Continue(s, out.reply, "verify", calls, r.mails)
        /\ res' = Outcome(r.req, "json", r.ip, out.reply, calls, r.mails)
        /\ UNCHANGED << now, schedule, env, page >>

\* transporter.verify() settles: handler runs to transporter.sendMail() or to its response
VerifyReturn(s, ok) ==
    LET r     == inflight[s]
        reply == afterVerify(ok)
        calls == IF reply.done THEN r.calls ELSE Append(r.calls, "sendMail")
        mails == IF reply.done THEN r.mails ELSE Append(r.mails, mailOf(r.req, env))
    IN  /\ r.pc = "verify"
        /\ Continue(s, reply, "send", calls, mails)
        /\ res' = Outcome(r.req, "verify", r.ip, reply, calls, mails)
        /\ UNCHANGED << now, schedule, env, hits, blocked, badHits, page >>

\* transporter.sendMail() settles: handler responds
SendReturn(s, ok) ==
    LET r == inflight[s]
    IN  /\ r.pc = "send"
        /\ inflight' = [inflight EXCEPT ![s] = Idle]
        /\ res' = Outcome(r.req, "send", r.ip, afterSend(ok), r.calls, r.mails)
        /\ UNCHANGED << now, schedule, env, hits, blocked, badHits, page >>

\* time passes: the clock advances by the next step of its schedule
Tick ==
    /\ schedule # << >>
    /\ now' = now + Head(schedule)
    /\ schedule' = Tail(schedule)
    /\ UNCHANGED << env, hits, blocked, badHits, inflight, res, page >>

----------------------------------------------------------------------------
(* assets/i18n/i18n.js *)

EN == << "e", "n" >>

ES == << "e", "s" >>

PT == << "p", "t" >>

FR == << "f", "r" >>

DE == << "d", "e" >>

DEFAULT_LANG == EN

LANGS == { EN, ES, PT }

PATH_ROOT == << "/" >>

PATH_EN == << "/", "e", "n", "/" >>

PATH_ES == << "/", "e", "s", "/" >>

PATH_PT_PAGE == << "/", "p", "t", "/", "x" >>

PATH_FR == << "/", "f", "r", "/" >>

PATH_UPPER == << "/", "E", "S", "/" >>

PATH_DOUBLE == << "/", "/", "e", "s" >>

PATH_PAGE == << "/", "x", "/", "e", "s" >>

\* location.pathname of the pages a visitor opens
Paths ==
    { PATH_ROOT, PATH_EN, PATH_ES, PATH_PT_PAGE, PATH_FR, PATH_UPPER,
      PATH_DOUBLE, PATH_PAGE }

\* window.__FORCED_LANG__ as a page sets it (<< >> when it does not)
Forced == { << >>, EN, ES, PT, FR }

\* localStorage 'lang' when the visitor arrives (<< >> when there is none)
Saved == { << >>, EN, ES, DE }

\* data-lang of the control clicked (<< >> for #lang-toggle without it)
DataLangs == { << >>, EN, ES, PT }

\* s.split(sep)
RECURSIVE split(_, _)
split(s, sep) ==
    IF \A i \in 1..Len(s) : s[i] # sep
    THEN << s >>
    ELSE LET i == CHOOSE k \in 1..Len(s) :
                      s[k] = sep /\ \A j \in 1..(k - 1) : s[j] # sep
         IN  << SubSeq(s, 1, i - 1) >> \o split(SubSeq(s, i + 1, Len(s)), sep)

\* parts.filter(Boolean)[0], << >> when there is no such part
firstNonEmpty(parts) ==
    LET kept == SelectSeq(parts, LAMBDA p : p # << >>)
    IN  IF kept = << >> THEN << >> ELSE kept[1]

\* detectLang with the stored preference looked at before the path
detectLang_savedFirst(forced, pathname, saved) ==
    LET pathLang == firstNonEmpty(split(pathname, "/"))
    IN  IF forced # << >> /\ forced \in LANGS THEN forced
        ELSE IF saved \in LANGS THEN saved
        ELSE IF pathLang \in LANGS THEN pathLang
        ELSE DEFAULT_LANG

detectLang(forced, pathname, saved) ==
    LET pathLang == firstNonEmpty(split(pathname, "/"))
    IN  IF forced # << >> /\ forced \in LANGS THEN forced
        ELSE IF pathLang \in LANGS THEN pathLang
        ELSE IF saved \in LANGS THEN saved
        ELSE DEFAULT_LANG

\* the text load gives #lang-toggle
toggleText(lang) == IF lang = EN THEN "ES" ELSE "EN"

\* a page as the browser opens it: the script has yet to run; target is the
\* language of the click that opened it, << >> when no click did
Page(forced, pathname, saved) ==
    [forced |-> forced, pathname |-> pathname, saved |-> saved,
     pc |-> "run", lang |-> << >>, current |-> << >>, htmlLang |-> << >>,
     btn |-> "", dict |-> << >>, target |-> << >>]

\* the script runs to the await of load: load(detectLang())
Run ==
    /\ page.pc = "run"
    /\ page' = [page EXCEPT !.pc = "loadDict",
                            !.lang = detectLang(page.forced, page.pathname, page.saved)]
    /\ UNCHANGED contactVars

\* loadDict settles and load runs to its end: outcome is "dict" (the dictionary
\* of lang), "notOk" or "throws" (both {}); applyDict rewrites with a dictionary
load(p, outcome) ==
    [p EXCEPT !.pc = "loaded",
              !.dict = IF outcome = "dict" THEN p.lang ELSE p.dict,
              !.htmlLang = p.lang,
              !.btn = toggleText(p.lang),
              !.saved = p.lang,
              !.current = p.lang]

LoadReturn(outcome) ==
    /\ page.pc = "loadDict"
    /\ page' = load(page, outcome)
    /\ UNCHANGED contactVars

\* the href the click handler navigates to
clickTarget(p, dataLang) ==
    LET current == IF p.current # << >> THEN p.current
                   ELSE detectLang(p.forced, p.pathname, p.saved)
    IN  IF dataLang # << >> THEN dataLang
        ELSE IF current = EN THEN ES ELSE EN

href(target) == IF target = EN THEN << "/" >> ELSE << "/" >> \o target \o << "/" >>

\* a click on #lang-toggle or [data-lang]: the browser opens href, a page whose
\* override is forcedNext; localStorage stays
Click(dataLang, forcedNext) ==
    /\ page.pc # "run"
    /\ page' = [Page(forcedNext, href(clickTarget(page, dataLang)), page.saved)
                   EXCEPT !.target = clickTarget(page, dataLang)]
    /\ UNCHANGED contactVars

----------------------------------------------------------------------------
(* Specifications *)

Slots == 1..MaxInFlight

SECOND == 1000

MINUTE == 60 * SECOND

\* the schedules of the clock
Schedules ==
    { << MINUTE, 30 * SECOND >>,
      << MINUTE, 59 * MINUTE >>,
      << MINUTE, 60 * MINUTE >>,
      << 9 * MINUTE, MINUTE >>,
      << 10 * MINUTE, MINUTE >> }

Init ==
    /\ now = 0
    /\ schedule \in Schedules
    /\ env = ENV_SMTP
    /\ hits = << >>
    /\ blocked = << >>
    /\ badHits = << >>
    /\ inflight = [s \in Slots |-> Idle]
    /\ res = NoRes
    /\ page = Page(<< >>, PATH_ROOT, << >>)

\* the handler with its invocations interleaved at their awaits
Next ==
    \/ \E r \in CoreRequests : Arrive(r.id)
    \/ \E s \in Slots : \E resolved \in BOOLEAN : FetchReturn(s, resolved)
    \/ \E s \in Slots : \E json \in { "throws", "failure", "success" } :
           \E transport \in { "ok", "throws" } : JsonReturn(s, json, transport)
    \/ \E s \in Slots : \E ok \in BOOLEAN : VerifyReturn(s, ok)
    \/ \E s \in Slots : \E ok \in BOOLEAN : SendReturn(s, ok)
    \/ Tick

Spec == Init /\ [][Next]_vars

\* the schedules of the clock in the sequential specification
SeqSchedules == { << MINUTE >> }

SeqInit ==
    /\ now = 0
    /\ schedule \in SeqSchedules
    /\ env \in Envs
    /\ hits = << >>
    /\ blocked = << >>
    /\ badHits = << >>
    /\ inflight = [s \in Slots |-> Idle]
    /\ res = NoRes
    /\ page = Page(<< >>, PATH_ROOT, << >>)

\* no invocation is suspended
Quiet == \A s \in Slots : inflight[s].pc = "idle"

\* the handler with each invocation running to completion before the next begins
SeqNext ==
    \/ \E r \in AllRequests : Quiet /\ Arrive(r.id)
    \/ \E s \in Slots : \E resolved \in BOOLEAN : FetchReturn(s, resolved)
    \/ \E s \in Slots : \E json \in { "throws", "failure", "success" } :
           \E transport \in { "ok", "throws" } : JsonReturn(s, json, transport)
    \/ \E s \in Slots : \E ok \in BOOLEAN : VerifyReturn(s, ok)
    \/ \E s \in Slots : \E ok \in BOOLEAN : SendReturn(s, ok)
    \/ Tick

SeqSpec == SeqInit /\ [][SeqNext]_vars

\* the pages a visitor opens: override, path and stored preference
I18nInit ==
    /\ now = 0
    /\ schedule = << >>
    /\ env = ENV_SMTP
    /\ hits = << >>
    /\ blocked = << >>
    /\ badHits = << >>
    /\ inflight = [s \in Slots |-> Idle]
    /\ res = NoRes
    /\ \E f \in Forced : \E p \in Paths : \E sv \in Saved : page = Page(f, p, sv)

\* the translation script in one browser tab
I18nNext ==
    \/ Run
    \/ \E outcome \in { "dict", "notOk", "throws" } : LoadReturn(outcome)
    \/ \E dataLang \in DataLangs : \E f \in Forced : Click(dataLang, f)

I18nSpec == I18nInit /\ [][I18nNext]_vars

\* the handler run to completion, with the clock of the interleaved specification:
\* time passes while an invocation is suspended, and no other one begins
SeqCoreNext ==
    \/ \E r \in CoreRequests : Quiet /\ Arrive(r.id)
    \/ \E s \in Slots : \E resolved \in BOOLEAN : FetchReturn(s, resolved)
    \/ \E s \in Slots : \E json \in { "throws", "failure", "success" } :
           \E transport \in { "ok", "throws" } : JsonReturn(s, json, transport)
    \/ \E s \in Slots : \E ok \in BOOLEAN : VerifyReturn(s, ok)
    \/ \E s \in Slots : \E ok \in BOOLEAN : SendReturn(s, ok)
    \/ Tick

SeqCoreSpec == Init /\ [][SeqCoreNext]_vars

----------------------------------------------------------------------------
(* The abuse tracker, call by call *)

\* the requests of the second caller, all without token, whose bad events the
\* tracker may hold
MaxOther == 1

\* what the latest call of the tracker left: the function called, its argument,
\* the value it returned, and what the invocation that called it does next
\* ("rateLimited", "token" for the test of the token, "" when it has returned
\* or is suspended)
Call(fn, ip, ret, pc) == [req |-> "", step |-> fn, ip |-> ip, ret |-> ret, pc |-> pc]

\* the schedules of the clock in the specification of the tracker
TrackerSchedules ==
    { << 30 * SECOND >>,
      << 10 * MINUTE >>,
      << MINUTE, 60 * MINUTE >> }

TrackerInit ==
    /\ now = 0
    /\ schedule \in TrackerSchedules
    /\ env = ENV_SMTP
    /\ hits = << >>
    /\ blocked = << >>
    /\ badHits = << >>
    /\ inflight = [s \in Slots |-> Idle]
    /\ res = Call("", "", FALSE, "")
    /\ page = Page(<< >>, PATH_ROOT, << >>)

\* handler reaches if (isBlocked(ip)) for a request of ip; no other invocation is
\* between its awaits
IsBlockedCall(ip) ==
    LET blk == isBlocked(blocked, ip, now)
    IN  /\ res.pc = ""
        /\ ip = UNKNOWN => countFor(badHits, UNKNOWN) < MaxOther
        /\ blocked' = blk.blocked
        /\ res' = Call("isBlocked", ip, blk.ret, IF blk.ret THEN "" ELSE "rateLimited")
        /\ UNCHANGED << now, schedule, env, hits, badHits, inflight, page >>

\* handler goes on to if (rateLimited(ip))
RateLimitedCall ==
    LET rl == rateLimited(hits, res.ip, now)
    IN  /\ res.pc = "rateLimited"
        /\ hits' = rl.hits
        /\ res' = Call("rateLimited", res.ip, rl.ret, IF rl.ret THEN "" ELSE "token")
        /\ UNCHANGED << now, schedule, env, blocked, badHits, inflight, page >>

\* the request has no token: markBad(ip) before handler returns
MarkBadNow ==
    LET mb == markBad(badHits, blocked, res.ip, now)
    IN  /\ res.pc = "token"
        /\ badHits' = mb.badHits
        /\ blocked' = mb.blocked
        /\ res' = Call("markBad", res.ip, FALSE, "")
        /\ UNCHANGED << now, schedule, env, hits, inflight, page >>

\* the request has a token: handler is suspended at await fetch
Await ==
    /\ res.pc = "token"
    /\ res.ip # UNKNOWN
    /\ FreeSlots # {}
    /\ LET s == CHOOSE x \in FreeSlots : \A y \in FreeSlots : x <= y
       IN  inflight' = [inflight EXCEPT ![s] = [Idle EXCEPT !.pc = "fetch", !.ip = res.ip]]
    /\ res' = Call("await", res.ip, FALSE, "")
    /\ UNCHANGED << now, schedule, env, hits, blocked, badHits, page >>

\* the invocation of slot s goes on after its awaits; bad: the CAPTCHA or a field
\* is rejected with markBad(ip); else handler returns without it
Resume(s, bad) ==
    LET r  == inflight[s]
        mb == markBad(badHits, blocked, r.ip, now)
    IN  /\ res.pc = ""
        /\ r.pc = "fetch"
        /\ inflight' = [inflight EXCEPT ![s] = Idle]
        /\ IF bad
           THEN /\ badHits' = mb.badHits
                /\ blocked' = mb.blocked
                /\ res' = Call("markBad", r.ip, FALSE, "")
           ELSE /\ UNCHANGED << badHits, blocked >>
                /\ res' = Call("return", r.ip, FALSE, "")
        /\ UNCHANGED << now, schedule, env, hits, page >>

\* time passes between the synchronous runs of handler
Elapse == res.pc = "" /\ Tick

\* the calls of the tracker that the invocations of handler make
TrackerNext ==
    \/ \E ip \in IPs : IsBlockedCall(ip)
    \/ RateLimitedCall
    \/ MarkBadNow
    \/ Await
    \/ \E s \in Slots : \E bad \in BOOLEAN : Resume(s, bad)
    \/ Elapse

TrackerSpec == TrackerInit /\ [][TrackerNext]_vars

----------------------------------------------------------------------------
(* Properties of the abuse tracker as the handler uses it *)

\* the step is the arrival of request id
Arrives(id) == res'.req = id /\ res'.step = "entry" /\ Arrive(id)

\* the request reaches the IP block gate: POST, JSON, body readable, honeypot empty
ReachesBlockGate(id) ==
    LET p == Parsed[id]
    IN  p.method = "POST" /\ p.isJson /\ ~p.bodyThrows /\ ~p.honeypot

\* the IP is blocked at time t under the map b
BlockedAt(b, ip, t) == ip \in DOMAIN b /\ t < b[ip]

\* the entries of list that are less than span old at time t
Within(list, span, t) == SelectSeq(list, LAMBDA e : t - e.time < span)

\* the number of entries of ip among them
CountWithin(list, span, t, ip) ==
    Len(SelectSeq(list, LAMBDA e : e.ip = ip /\ t - e.time < span))

\* the step is the arrival of request id, which reaches the rate gate
RateGateStep(id) ==
    Arrives(id) /\ ReachesBlockGate(id) /\ ~BlockedAt(blocked, Parsed[id].ip, now)

\* at the rate gate: 429 exactly when 5 submissions of the IP were accepted in the
\* last 60 seconds, and then nothing is recorded; else the submission is recorded
RateGateDecides(id) ==
    LET ip   == Parsed[id].ip
        kept == Within(hits, WINDOW_MS, now)
    IN  IF CountWithin(hits, WINDOW_MS, now, ip) >= MAX_PER_WINDOW
        THEN /\ res'.done /\ res'.status = 429 /\ ~res'.ok
             /\ Within(hits', WINDOW_MS, now) = kept
        ELSE /\ res'.status # 429
             /\ Within(hits', WINDOW_MS, now) = Append(kept, [ip |-> ip, time |-> now])

\* no other step records or forgets a submission of the last 60 seconds
RateWindowKept ==
    (\A r \in CoreRequests : ~RateGateStep(r.id))
        => Within(hits', WINDOW_MS, now') = Within(hits, WINDOW_MS, now')

\* C1 (as amended): a POST with a JSON body and an empty honeypot from an IP that
\* is not blocked gets 429 exactly when 5 submissions from that IP passed the
\* rate gate in the last 60 seconds; a rejected submission is not recorded, an
\* accepted one is, and a recorded submission counts until it is 60 seconds old,
\* so 60 seconds after the oldest of the 5 the rate gate accepts again.
C1_RateLimit ==
    [][ /\ \A r \in CoreRequests : RateGateStep(r.id) => RateGateDecides(r.id)
        /\ RateWindowKept ]_vars

\* C1, witness: with 5 submissions recorded at 60 s, the next one 30 s later is
\* answered 429
C1_Witness ==
    /\ res.status = 429
    /\ now = 90 * SECOND
    /\ CountWithin(hits, WINDOW_MS, now, IP_A) = MAX_PER_WINDOW
    /\ \A i \in 1..Len(hits) : hits[i].time = 60 * SECOND

\* C1, second case: 5 submissions without token at 0 (their bad events remain),
\* and one accepted by the rate gate exactly 60 seconds later
C1_AcceptedAgain ==
    /\ now = WINDOW_MS
    /\ res.status = 400 /\ res.error = "missing_turnstile_token"
    /\ CountWithin(badHits, 1, 0, IP_A) = MAX_PER_WINDOW
    /\ CountWithin(hits, 1, now, IP_A) = 1

\* C1 as the specification states it: any submission from an IP that has 5
\* accepted submissions in the last 60 seconds is answered 429
C1_AsStated ==
    [][ \A r \in CoreRequests :
            Arrives(r.id)
            /\ CountWithin(hits, WINDOW_MS, now, Parsed[r.id].ip) >= MAX_PER_WINDOW
            => res'.status = 429 ]_vars

\* the step records a bad event: markBad is the only code that changes badHits,
\* and it always appends
BadEventStep == badHits' # badHits

\* the IP of the bad event the step records
BadEventIp == badHits'[Len(badHits')].ip

\* a bad event is recorded as (ip, now), and bad events less than 10 minutes old
\* are never forgotten
BadWindowKept ==
    IF BadEventStep
    THEN Within(badHits', BAD_WINDOW_MS, now) =
             Append(Within(badHits, BAD_WINDOW_MS, now),
                    [ip |-> BadEventIp, time |-> now])
    ELSE badHits' = badHits

\* the block entry of ip after the step: set to one hour from now by a bad event
\* that leaves 8 or more of the last 10 minutes, else left as it is, or removed
\* once it has expired
BlockEntryStep(ip) ==
    IF BadEventStep /\ BadEventIp = ip
       /\ CountWithin(badHits', BAD_WINDOW_MS, now, ip) >= BAD_LIMIT
    THEN ip \in DOMAIN blocked' /\ blocked'[ip] = now + BLOCK_MS
    ELSE \/ /\ ip \in DOMAIN blocked
            /\ ip \in DOMAIN blocked' /\ blocked'[ip] = blocked[ip]
         \/ /\ ip \notin DOMAIN blocked'
            /\ ip \in DOMAIN blocked => now >= blocked[ip]

\* at the block gate: 403 exactly while the expiry of the IP is in the future;
\* else the request goes on to the rate gate
BlockGateDecides(id) ==
    LET ip == Parsed[id].ip
    IN  IF BlockedAt(blocked, ip, now)
        THEN /\ res'.done /\ res'.status = 403 /\ ~res'.ok
             /\ hits' = hits /\ badHits' = badHits
        ELSE /\ res'.status # 403
             /\ RateGateDecides(id)

\* C2 (as amended): a bad event that leaves 8 or more bad events of the last 10
\* minutes for its IP sets the expiry of the IP's block to one hour after that
\* event, whether it crosses the threshold or follows the crossing (a request
\* suspended past the block gate records it later and moves the expiry); no
\* other step moves an expiry that is in the future.  A POST with a JSON body
\* and an empty honeypot from the IP is answered 403 while the expiry is in
\* the future, and from the expiry on it is not and goes on to the rate gate.
C2_Block ==
    [][ /\ BadWindowKept
        /\ \A ip \in IPs : BlockEntryStep(ip)
        /\ \A r \in CoreRequests :
               Arrives(r.id) /\ ReachesBlockGate(r.id) => BlockGateDecides(r.id) ]_vars

\* C2, witness: the 8th bad event at 1 minute has set the expiry to 61 minutes;
\* at 60 minutes a submission from the IP is answered 403
C2_Witness ==
    /\ now = 60 * MINUTE
    /\ res.status = 403 /\ res.step = "entry"
    /\ IP_A \in DOMAIN blocked /\ blocked[IP_A] = MINUTE + BLOCK_MS

\* C2, second case: the 8th bad event at 1 minute set the expiry to 61 minutes
\* (the 8 bad events remain, the last 3 of them at 1 minute); at 61 minutes the
\* block is gone and a submission from the IP has passed the rate gate
C2_Released ==
    /\ now = MINUTE + BLOCK_MS
    /\ CountWithin(badHits, BAD_WINDOW_MS, MINUTE, IP_A) = BAD_LIMIT
    /\ CountWithin(badHits, 1, MINUTE, IP_A) = 3
    /\ res.step = "entry" /\ res.ip = IP_A /\ res.status \notin { 403, 429 }
    /\ IP_A \notin DOMAIN blocked
    /\ hits = << [ip |-> IP_A, time |-> now] >>

\* C2, third case: 5 bad events at 0 and 3 at 10 minutes are not 8 within 10
\* minutes: no block
C2_WindowPassed ==
    /\ now = 10 * MINUTE
    /\ CountWithin(badHits, 1, now, IP_A) = 3
    /\ res.error = "missing_turnstile_token"
    /\ blocked = << >>

\* C2, fourth case: 5 bad events at 0 and 3 at 9 minutes are: the block is set
C2_WindowCounts ==
    /\ now = 9 * MINUTE
    /\ CountWithin(badHits, BAD_WINDOW_MS, now, IP_A) = BAD_LIMIT
    /\ CountWithin(badHits, 1, now, IP_A) = 3
    /\ IP_A \in DOMAIN blocked /\ blocked[IP_A] = now + BLOCK_MS

\* C2 as the specification states it: while an IP is blocked every submission
\* from it is answered 403, and the expiry stays one hour after the bad event
\* that crossed the threshold
C2_AsStated ==
    [][ \A ip \in DOMAIN blocked :
            now < blocked[ip]
            => /\ ip \in DOMAIN blocked' /\ blocked'[ip] = blocked[ip]
               /\ \A r \in CoreRequests :
                      Arrives(r.id) /\ Parsed[r.id].ip = ip => res'.status = 403 ]_vars

\* C2 as the specification states it, the expiry alone: it stays one hour after
\* the bad event that crossed the threshold
C2_ExpiryFixed ==
    [][ \A ip \in DOMAIN blocked :
            now < blocked[ip]
            => ip \in DOMAIN blocked' /\ blocked'[ip] = blocked[ip] ]_vars

----------------------------------------------------------------------------
(* Properties of the handler, request by request *)

\* the abuse tracker is as it was
TrackerUnchanged == hits' = hits /\ blocked' = blocked /\ badHits' = badHits

\* the reply 200 {ok:true} with no call to the CAPTCHA service or the relay
SyntheticSuccess(r) ==
    /\ r.done /\ r.status = 200 /\ r.ok /\ r.responses = 1
    /\ r.calls = << >> /\ r.mails = << >>

\* C3 (as amended): a POST with a JSON content type and a readable body whose
\* _gotcha is non-empty after trimming is answered 200 {ok:true} with no call to
\* the CAPTCHA service and no email, whatever its other fields and token and
\* whether or not its IP is blocked or rate-limited; the tracker is not touched.
C3_Honeypot ==
    [][ \A r \in AllRequests :
            /\ Arrives(r.id)
            /\ r.method = "POST" /\ isJson(r) /\ r.bodyKind = "object"
            /\ trim(r.body._gotcha) # << >>
            => SyntheticSuccess(res') /\ TrackerUnchanged ]_vars

\* C3, witness: a honeypot submission answered 200 while its IP is blocked and
\* has 5 submissions in the rate window
C3_Witness ==
    /\ res.req \in { Post(H_A, B_HONEYPOT).id, Post(H_A, B_HONEYPOT_BAD).id }
    /\ SyntheticSuccess(res)
    /\ BlockedAt(blocked, IP_A, now)
    /\ CountWithin(hits, WINDOW_MS, now, IP_A) = MAX_PER_WINDOW

\* C3 as the specification states it: any request whose _gotcha is non-empty is
\* answered 200 {ok:true}
C3_AsStated ==
    [][ \A r \in AllRequests :
            Arrives(r.id) /\ r.body._gotcha # << >>
            => (res'.done => res'.status = 200 /\ res'.ok) ]_vars

\* the gates a request meets on arrival, in the order of the specification, each
\* with whether the request fails it in the present state and the reply it gives
ArrivalGates(r) ==
    LET ip == clientIp(r)
    IN  << [gate |-> "method", fails |-> r.method # "POST",
            status |-> 405, ok |-> FALSE, error |-> "Method not allowed"],
           [gate |-> "content type", fails |-> ~isJson(r),
            status |-> 400, ok |-> FALSE, error |-> "Send JSON body"],
           [gate |-> "honeypot", fails |-> trim(bodyOf(r)._gotcha) # << >>,
            status |-> 200, ok |-> TRUE, error |-> ""],
           [gate |-> "block", fails |-> BlockedAt(blocked, ip, now),
            status |-> 403, ok |-> FALSE, error |-> "IP temporarily blocked."],
           [gate |-> "rate", fails |-> CountWithin(hits, WINDOW_MS, now, ip) >= MAX_PER_WINDOW,
            status |-> 429, ok |-> FALSE, error |-> "Too many requests, try again later."],
           [gate |-> "captcha", fails |-> bodyOf(r).token = << >>,
            status |-> 400, ok |-> FALSE, error |-> "missing_turnstile_token"] >>

\* the gates a request meets once the CAPTCHA service has answered
AnswerGates(r, json) ==
    << [gate |-> "captcha", fails |-> json = "failure",
        status |-> 400, ok |-> FALSE, error |-> "turnstile_failed"],
       [gate |-> "fields", fails |-> Parsed[r.id].check.error # "",
        status |-> 400, ok |-> FALSE, error |-> Parsed[r.id].check.error] >>

\* the first gate of gates that fails, 0 when none does
FirstFailing(gates) ==
    IF \A i \in 1..Len(gates) : ~gates[i].fails THEN 0
    ELSE CHOOSE i \in 1..Len(gates) :
             gates[i].fails /\ \A j \in 1..(i - 1) : ~gates[j].fails

\* what the gates after gate k would do has not been done: no rate-window entry
\* before the rate gate, no bad event and no fetch before the CAPTCHA gate
LaterGatesNotRun(gate) ==
    /\ gate \in { "method", "content type", "honeypot", "block" } => hits' = hits
    /\ gate \in { "method", "content type", "honeypot", "block", "rate" }
           => badHits' = badHits
    /\ res'.calls = << >> /\ res'.mails = << >>

\* the reply is the one of gate g
RepliesAs(r, g) ==
    /\ r.done /\ r.responses = 1
    /\ r.status = g.status /\ r.ok = g.ok /\ r.error = g.error

\* on arrival the first failing gate answers, and none of the later ones runs;
\* when none fails the handler calls the CAPTCHA service
ArrivalInOrder(r) ==
    LET gates == ArrivalGates(r)
        k     == FirstFailing(gates)
    IN  IF k = 0
        THEN ~res'.done /\ res'.calls = << "fetch" >>
        ELSE RepliesAs(res', gates[k]) /\ LaterGatesNotRun(gates[k].gate)

\* once the CAPTCHA service has answered, the first failing gate answers and the
\* relay is not called; when none fails the handler goes on to the relay
AnswerInOrder(r, json) ==
    LET gates == AnswerGates(r, json)
        k     == FirstFailing(gates)
    IN  IF k = 0
        THEN res'.status # 400
        ELSE /\ RepliesAs(res', gates[k])
             /\ res'.calls = << "fetch", "json" >> /\ res'.mails = << >>

\* C4: the gates are applied in the order method, content type, honeypot, IP
\* block, rate limit, CAPTCHA, field validation; the reply is that of the first
\* gate the request fails, and no later gate is executed (no rate-window entry,
\* no bad event, no call to the CAPTCHA service or to the relay).
C4_GateOrder ==
    [][ /\ \A r \in AllRequests :
               Arrives(r.id) /\ r.bodyKind # "throws" => ArrivalInOrder(r)
        /\ \A s \in Slots : \A json \in { "failure", "success" } :
               JsonReturn(s, json, "ok") => AnswerInOrder(Request[inflight[s].req], json)
      ]_vars

\* C4, witness: a submission without token from an IP that is blocked and has a
\* full rate window fails three gates and gets the reply of the first, 403
C4_Witness ==
    /\ res.req = Post(H_A, B_NO_TOKEN).id
    /\ res.done /\ res.status = 403
    /\ CountWithin(hits, WINDOW_MS, now, IP_A) = MAX_PER_WINDOW

\* C4, second case: the CAPTCHA service rejects the token of a submission whose
\* fields are invalid too; the reply is the one of the CAPTCHA gate
C4_CaptchaBeforeFields ==
    /\ res.req = Post(H_A, B_BAD_EMAIL_REST_BAD).id
    /\ res.done /\ res.error = "turnstile_failed"

\* the step records exactly one bad event, for ip, at the present time
OneBadEvent(ip) ==
    Within(badHits', BAD_WINDOW_MS, now) =
        Append(Within(badHits, BAD_WINDOW_MS, now), [ip |-> ip, time |-> now])

\* the errors of the CAPTCHA gate and of the field-validation gate
GateErrors ==
    { "missing_turnstile_token", "turnstile_failed",
      "name, email and message are required.", "Invalid email.", "Invalid name.",
      "Invalid organization.", "Invalid message." }

\* the step is one of handler for the request in res', and rejects it at the
\* CAPTCHA gate or at the field-validation gate
CaptchaOrFieldRejection ==
    /\ \/ \E r \in AllRequests : Arrives(r.id)
       \/ \E s \in Slots : \E json \in { "failure", "success" } : JsonReturn(s, json, "ok")
    /\ res'.done /\ res'.status = 400 /\ res'.error \in GateErrors

\* C5 as the specification states it: every rejection by the CAPTCHA gate or by
\* the field-validation gate, a missing required field included, records exactly
\* one bad event for the caller's IP.
C5_AsStated == [][ CaptchaOrFieldRejection => OneBadEvent(res'.ip) ]_vars

\* C5 without the missing required field: every other rejection by these two
\* gates records exactly one bad event for the caller's IP
C5_ExceptRequired ==
    [][ CaptchaOrFieldRejection /\ res'.error # "name, email and message are required."
            => OneBadEvent(res'.ip) ]_vars

\* C5: the rejection for a missing required field leaves the bad events as they are
C5_RequiredNotRecorded ==
    [][ CaptchaOrFieldRejection /\ res'.error = "name, email and message are required."
            => badHits' = badHits /\ blocked' = blocked ]_vars

\* C5, the case: a submission with a verified token and no name has been rejected
C5_Rejected ==
    /\ res.req = Post(H_A, B_NO_NAME_BAD_EMAIL).id
    /\ res.done /\ res.error = "name, email and message are required."
    /\ badHits = << >>

----------------------------------------------------------------------------
(* Properties of the relay of a submission *)

\* the calls of an invocation that has sent, in their order
SentCalls == << "fetch", "json", "createTransport", "verify", "sendMail" >>

\* the number of sendMail calls among calls
Sends(calls) == Len(SelectSeq(calls, LAMBDA c : c = "sendMail"))

\* the account the relay authenticates: SMTP_USER, or M365_USER without it
AuthenticatedSender == IF env.SMTP_USER # "" THEN env.SMTP_USER ELSE env.M365_USER

\* the credentials are configured: an account and its password
CredentialsConfigured ==
    /\ AuthenticatedSender # ""
    /\ env.SMTP_PASS # "" \/ env.M365_PASS # ""

\* the request fails none of the gates that do not depend on the tracker
PassesStatelessGates(id) ==
    LET r == Request[id]
    IN  /\ r.method = "POST" /\ isJson(r) /\ r.bodyKind # "throws"
        /\ trim(bodyOf(r)._gotcha) = << >>
        /\ bodyOf(r).token # << >>
        /\ Parsed[id].check.error = ""

\* the invocation in res sent no email
NothingSent(r) == r.mails = << >> /\ Sends(r.calls) = 0

\* the invocation in res sent one email, from the authenticated sender, with the
\* Reply-To given
SentOnce(r, replyTo) ==
    /\ r.calls = SentCalls
    /\ Len(r.mails) = 1
    /\ r.mails[1].from.address = AuthenticatedSender
    /\ r.mails[1].replyTo = replyTo

\* what holds of every invocation: at most one send; a send only past every gate,
\* from the authenticated sender, replying to the trimmed, lower-cased email; no
\* send with any reply other than the final 200 or the failure of the send itself
SendsAreSound(r) ==
    /\ Sends(r.calls) <= 1 /\ Len(r.mails) = Sends(r.calls)
    /\ Sends(r.calls) = 1
           => /\ PassesStatelessGates(r.req)
              /\ CredentialsConfigured
              /\ SentOnce(r, toLowerCase(trim(bodyOf(Request[r.req]).email)))
              /\ r.done => \/ r.status = 200 /\ r.ok
                           \/ r.status = 500 /\ r.error = "SMTP send failed"
    /\ r.done /\ r.status \in { 400, 403, 405, 429 } => NothingSent(r)

\* a request past every gate, with the credentials configured, goes on to the
\* pre-flight check
GoesToRelay ==
    \A s \in Slots :
        /\ JsonReturn(s, "success", "ok")
        /\ PassesStatelessGates(inflight[s].req)
        /\ CredentialsConfigured
        => ~res'.done /\ res'.calls = << "fetch", "json", "createTransport", "verify" >>

\* with the relay reachable the pre-flight check leads to the send, and the send
\* to 200 {ok:true}
RelayDelivers ==
    \A s \in Slots :
        /\ VerifyReturn(s, TRUE) => ~res'.done /\ res'.calls = SentCalls
        /\ SendReturn(s, TRUE)
               => /\ res'.done /\ res'.status = 200 /\ res'.ok /\ res'.responses = 1
                  /\ Sends(res'.calls) = 1

\* C6 (as amended): a request that passes every gate, with the credentials
\* configured and the relay reachable, is answered 200 {ok:true} after exactly
\* one send whose From is the authenticated sender and whose Reply-To is the
\* submitted email trimmed and lower-cased; no invocation sends more than once,
\* and none that failed a gate sends at all.
C6_Relay == [][ SendsAreSound(res') /\ GoesToRelay /\ RelayDelivers ]_vars

\* C6, witness: a submission with the email " Jane@Example.COM" answered 200
\* after one send with Reply-To jane@example.com, the sender being the M365 account
C6_Witness ==
    /\ res.req = Post(H_A, B_VALID_MIXED).id
    /\ res.done /\ res.status = 200 /\ res.ok
    /\ env = ENV_M365
    /\ SentOnce(res, EMAIL_OK)

\* C6 as the specification states it: the Reply-To of the send is the
\* submitter's email
C6_AsStated ==
    res.mails # << >> => res.mails[1].replyTo = bodyOf(Request[res.req]).email

----------------------------------------------------------------------------
(* Properties of the failures *)

\* the reply 500 {ok:false}, the one response of the invocation
ServerError(r) == r.done /\ r.status = 500 /\ ~r.ok /\ r.responses = 1

\* the step is one in which something called by handler throws or rejects
ThrowingStep ==
    \/ \E r \in AllRequests : Arrives(r.id) /\ r.bodyKind = "throws"
                                /\ r.method = "POST" /\ isJson(r)
    \/ \E s \in Slots : FetchReturn(s, FALSE)
    \/ \E s \in Slots : \E transport \in { "ok", "throws" } :
           JsonReturn(s, "throws", transport)
    \/ \E s \in Slots :
           /\ JsonReturn(s, "success", "throws")
           /\ PassesStatelessGates(inflight[s].req) /\ CredentialsConfigured
    \/ \E s \in Slots : VerifyReturn(s, FALSE)
    \/ \E s \in Slots : SendReturn(s, FALSE)

\* the invocation of slot s has responded
Responded(s) == inflight[s].pc # "idle" /\ inflight'[s].pc = "idle"

\* C7: an exception thrown in the request path (reading the body, the CAPTCHA
\* fetch or its JSON, the creation of the transport, the SMTP calls) ends the
\* invocation with the response 500 {ok:false}; every invocation that ends has
\* responded exactly once, and one that has not responded is suspended at an await.
C7_Exceptions ==
    [][ /\ ThrowingStep => ServerError(res') /\ TrackerUnchanged
        /\ res'.thrown => ServerError(res')
        /\ res'.responses = (IF res'.done THEN 1 ELSE 0)
        /\ \A s \in Slots : Responded(s) => res'.done /\ res'.req = inflight[s].req
        /\ res'.req # "" /\ ~res'.done
               => \E s \in Slots : inflight'[s].req = res'.req
                                    /\ inflight'[s].pc # "idle" ]_vars

\* C7, witness: reading the body of a POST with a JSON content type threw, and
\* the invocation answered 500 {ok:false}
C7_Witness ==
    /\ res.req = R_BODY_THROWS.id
    /\ res.thrown /\ ServerError(res)

\* C7, second case: the creation of the transport threw after every gate passed
C7_TransportThrew ==
    /\ res.req = Post(H_A, B_VALID).id
    /\ res.thrown /\ ServerError(res)
    /\ res.calls = << "fetch", "json" >>

\* the trimmed, lower-cased email and the trimmed name and message of a request
EmailOf(id) == toLowerCase(trim(bodyOf(Request[id]).email))

NameOf(id) == trim(bodyOf(Request[id]).name)

MessageOf(id) == trim(bodyOf(Request[id]).message)

\* the step is the field validation of the request of slot s
ValidationStep(s) ==
    \E transport \in { "ok", "throws" } : JsonReturn(s, "success", transport)

\* C8 (as amended): a request that reaches field validation with name, email
\* and message all non-empty after trimming and an email that does not match
\* the pattern is answered 400 "Invalid email." and records a bad event,
\* whatever the validity of name, organization, interest and message; when the
\* name or the message is empty after trimming the answer is 400 "name, email
\* and message are required." instead.
C8_InvalidEmail ==
    [][ \A s \in Slots :
            ValidationStep(s) /\ ~emailRegex(EmailOf(inflight[s].req))
            => /\ res'.done /\ res'.status = 400 /\ ~res'.ok
               /\ NothingSent(res')
               /\ IF /\ NameOf(inflight[s].req) # << >>
                     /\ EmailOf(inflight[s].req) # << >>
                     /\ MessageOf(inflight[s].req) # << >>
                  THEN res'.error = "Invalid email." /\ OneBadEvent(inflight[s].ip)
                  ELSE res'.error = "name, email and message are required." ]_vars

\* C8, witness: "not-an-email" with a one-word name, a gibberish organization
\* and a short message is answered "Invalid email."
C8_Witness ==
    /\ res.req = Post(H_A, B_BAD_EMAIL_REST_BAD).id
    /\ res.done /\ res.status = 400 /\ res.error = "Invalid email."

\* C8 as the specification states it: an email that does not match the pattern
\* is answered "Invalid email." whatever the other fields, an empty required
\* field included
C8_AsStated ==
    [][ \A s \in Slots :
            ValidationStep(s) /\ ~emailRegex(EmailOf(inflight[s].req))
            => res'.error = "Invalid email." ]_vars

\* C9: the pre-flight check comes before the send; its failure is answered 500
\* "SMTP verify failed" with no send attempted, the failure of the send 500
\* "SMTP send failed", and the two errors are never given for the other failure.
C9_VerifyThenSend ==
    [][ /\ \A s \in Slots :
               /\ VerifyReturn(s, FALSE)
                      => /\ ServerError(res') /\ res'.error = "SMTP verify failed"
                         /\ NothingSent(res')
               /\ SendReturn(s, FALSE)
                      => ServerError(res') /\ res'.error = "SMTP send failed"
        /\ res'.error = "SMTP verify failed" => res'.step = "verify" /\ NothingSent(res')
        /\ res'.error = "SMTP send failed" => res'.step = "send" /\ Sends(res'.calls) = 1
        /\ Sends(res'.calls) > 0 => res'.calls = SentCalls ]_vars

\* C9, witness: the pre-flight check failed; 500 "SMTP verify failed", nothing sent
C9_Witness ==
    /\ res.done /\ res.status = 500 /\ res.error = "SMTP verify failed"
    /\ res.calls = << "fetch", "json", "createTransport", "verify" >>
    /\ res.mails = << >>

\* C9, second case: the send failed after the pre-flight check passed
C9_SendFailed ==
    /\ res.done /\ res.status = 500 /\ res.error = "SMTP send failed"
    /\ res.calls = SentCalls

----------------------------------------------------------------------------
(* Properties of the translation script *)

\* the first segment of a path: its first maximal run of characters other than
\* "/", << >> when it has none
FirstSegment(path) ==
    LET at == { i \in 1..Len(path) : path[i] # "/" }
    IN  IF at = {} THEN << >>
        ELSE LET a == CHOOSE i \in at : \A j \in at : i <= j
                 b == CHOOSE j \in a..Len(path) :
                          /\ \A k \in a..j : path[k] # "/"
                          /\ j = Len(path) \/ path[j + 1] = "/"
             IN  SubSeq(path, a, b)

Supported == { EN, ES, PT }

\* the language the priority gives: the override, the path, the stored
\* preference, the default
ByPriority(p) ==
    IF p.forced \in Supported THEN p.forced
    ELSE IF FirstSegment(p.pathname) \in Supported THEN FirstSegment(p.pathname)
    ELSE IF p.saved \in Supported THEN p.saved
    ELSE EN

\* C10: on page load the active language is the forced override if supported,
\* else the first path segment if supported, else the stored preference if
\* supported, else 'en'; it is one of en, es, pt; and once the dictionary fetch
\* has settled it is the language of the page and the stored preference.
C10_DetectAndStore ==
    [][ /\ page.pc = "run" /\ page'.pc = "loadDict"
            => page'.lang = ByPriority(page) /\ page'.lang \in Supported
        /\ page.pc = "loadDict" /\ page'.pc = "loaded"
            => /\ page'.current = page.lang /\ page'.current \in Supported
               /\ page'.saved = page.lang
               /\ page'.htmlLang = page.lang
               /\ page'.forced = page.forced /\ page'.pathname = page.pathname ]_vars

\* C10, witness: an unsupported override 'fr' on the path "//es": the page has
\* loaded in 'es', now the stored preference
C10_Witness ==
    /\ page.pc = "loaded"
    /\ page.forced = FR /\ page.pathname = PATH_DOUBLE
    /\ page.current = ES /\ page.saved = ES

\* C10, second case: the override 'pt' wins over the path 'es'
C10_ForcedWins ==
    /\ page.pc = "loaded"
    /\ page.forced = PT /\ page.pathname = PATH_ES
    /\ page.current = PT /\ page.saved = PT

\* C10, third case: no override, the path "/ES/" is no supported segment and no
\* supported preference was stored: the default
C10_Default ==
    /\ page.pc = "loadDict"
    /\ page.forced = << >> /\ page.pathname = PATH_UPPER /\ page.saved = DE
    /\ page.lang = EN

----------------------------------------------------------------------------
(* Properties of the language switch *)

\* the step is a click whose target is the supported language L
ClicksTo(L) ==
    /\ page.pc # "run" /\ page'.pc = "run"
    /\ page'.target = L /\ L \in Supported

\* the path of language L: '/' for en, '/L/' otherwise
PathOf(L) == IF L = EN THEN << "/" >> ELSE << "/" >> \o L \o << "/" >>

\* the step ends the load of a page that a click on language L opened
LoadsAfterClick(L) ==
    /\ page.target = L /\ L \in Supported
    /\ page.pc = "loadDict" /\ page'.pc = "loaded"

\* C11, as stated: a click on a language-switch control whose target is a
\* supported language L navigates to L's path, and the page that loads after
\* the navigation has active language L and stored preference L.
C11_AsStated ==
    [][ \A L \in Supported :
          /\ ClicksTo(L) => page'.pathname = PathOf(L)
          /\ LoadsAfterClick(L) => page'.current = L /\ page'.saved = L ]_vars

\* the page opened by a click on L loads in L: its override, when supported, is
\* L, and for 'en', whose path names no language, without an override the
\* stored preference is neither 'es' nor 'pt'
LandsOn(L, p) ==
    IF p.forced \in Supported THEN p.forced = L
    ELSE L # EN \/ p.saved \notin { ES, PT }

\* C11, what the script does: the click navigates to L's path and stores
\* nothing; the page opened loads in L exactly when LandsOn holds, and stores
\* the language it loaded in.
C11_Navigates ==
    [][ \A L \in Supported :
          /\ ClicksTo(L) => /\ page'.pathname = PathOf(L)
                            /\ page'.saved = page.saved
          /\ LoadsAfterClick(L) => /\ (page'.current = L) = LandsOn(L, page)
                                   /\ page'.saved = page'.current ]_vars

\* C11, the failing case: the visitor's stored preference is 'es', a click on
\* 'en' opened '/', a page without override, and the page loaded in 'es'
C11_StaysSpanish ==
    /\ page.pc = "loaded" /\ page.target = EN
    /\ page.pathname = PATH_ROOT /\ page.forced = << >>
    /\ page.current = ES /\ page.saved = ES

\* C11, the case that works: a click on 'pt' from a page in 'es' opened '/pt/',
\* which loaded in 'pt' and stored it
C11_Switched ==
    /\ page.pc = "loaded" /\ page.target = PT
    /\ page.pathname = << "/", "p", "t", "/" >> /\ page.forced = << >>
    /\ page.current = PT /\ page.saved = PT
----------------------------------------------------------------------------
(* Properties of the message heuristics *)

\* s is a base64-like blob: 20 characters or more, each of A-Z, a-z, 0-9, +, /, =
Base64Blob(s) ==
    /\ Len(s) >= 20
    /\ \A i \in 1..Len(s) :
           s[i] \in Range(Upper) \cup Range(Lower) \cup Digits \cup { "+", "/", "=" }

\* the required fields are given and the email, the name and the organization
\* of the request pass their checks
EarlierFieldsPass(id) ==
    LET body == bodyOf(Request[id])
    IN  /\ NameOf(id) # << >> /\ EmailOf(id) # << >> /\ MessageOf(id) # << >>
        /\ emailRegex(EmailOf(id))
        /\ ~nameInvalid(body) /\ ~orgInvalid(body)

\* C12: a request whose message is a base64-like blob of 20 characters or more,
\* with the CAPTCHA verified and the name, email and organization checks passed,
\* is answered 400 {ok:false, error:"Invalid message."}, records one bad event
\* for the caller's IP, and sends no email.
C12_Base64Message ==
    [][ \A s \in Slots :
            /\ ValidationStep(s)
            /\ Base64Blob(bodyOf(Request[inflight[s].req]).message)
            /\ EarlierFieldsPass(inflight[s].req)
            => /\ res'.done /\ res'.status = 400 /\ ~res'.ok
               /\ res'.error = "Invalid message."
               /\ OneBadEvent(inflight[s].ip)
               /\ NothingSent(res')
               /\ res'.calls = << "fetch", "json" >> ]_vars

\* C12, witness: the 24-character blob, whose letters pass the vowel and
\* consonant rules, was answered "Invalid message." and the bad event is recorded
C12_Witness ==
    /\ res.req = Post(H_A, B_BASE64_MSG).id
    /\ Base64Blob(B_BASE64_MSG.message)
    /\ res.done /\ res.status = 400 /\ res.error = "Invalid message."
    /\ badHits # << >> /\ badHits[Len(badHits)] = [ip |-> IP_A, time |-> now]
    /\ res.mails = << >>
----------------------------------------------------------------------------
(* Properties of the functions of the abuse tracker *)

\* the step is a call of fn with the argument ip: the clock stands, and the call
\* is recorded or an invocation has left its await
Calls(fn, ip) ==
    /\ res'.step = fn /\ res'.ip = ip
    /\ now' = now
    /\ res' # res \/ inflight' # inflight

\* the block entries of the IPs other than ip are as they were
OthersKeepEntry(ip) ==
    \A o \in IPs \ { ip } :
        /\ (o \in DOMAIN blocked') = (o \in DOMAIN blocked)
        /\ o \in DOMAIN blocked => blocked'[o] = blocked[o]

\* C13: rateLimited(ip) returns true iff at least 5 entries of the IP remain in
\* the rate window once the entries 60 seconds old or older are pruned; when
\* it returns true it records nothing, and when it returns false it appends
\* exactly one entry (ip, now).
C13_RateLimited ==
    [][ \A ip \in IPs :
            Calls("rateLimited", ip)
            => LET kept == Within(hits, WINDOW_MS, now)
               IN  /\ res'.ret = (CountWithin(hits, WINDOW_MS, now, ip) >= 5)
                   /\ res'.ret => hits' = kept
                   /\ ~res'.ret => hits' = Append(kept, [ip |-> ip, time |-> now])
                   /\ \A i \in 1..Len(hits') : now - hits'[i].time < 60 * SECOND
                   /\ blocked' = blocked /\ badHits' = badHits ]_vars

\* C13, witness: 5 entries of the IP are 30 seconds old, an entry of the other
\* caller is there too, and rateLimited has returned true
C13_Witness ==
    /\ res.step = "rateLimited" /\ res.ip = IP_A /\ res.ret
    /\ now = 30 * SECOND
    /\ CountWithin(hits, 1, 0, IP_A) = MAX_PER_WINDOW
    /\ countFor(hits, UNKNOWN) = 1

\* C13, second case: the entries of the IP were exactly 60 seconds old (their 5
\* bad events remain); rateLimited has pruned them, returned false and recorded
\* the attempt
C13_PrunedAtSixty ==
    /\ res.step = "rateLimited" /\ res.ip = IP_A /\ ~res.ret
    /\ now = WINDOW_MS
    /\ CountWithin(badHits, 1, 0, IP_A) = MAX_PER_WINDOW
    /\ hits = << [ip |-> IP_A, time |-> now] >>

\* C14: markBad(ip) appends one bad event (ip, now) and removes the bad events
\* 10 minutes old or older; if at least 8 events of the IP remain it sets the
\* block expiry of the IP to now + 1 hour, else it leaves the block map as it
\* is; it never changes the block entry of another IP, nor the rate window.
C14_MarkBad ==
    [][ \A ip \in IPs :
            Calls("markBad", ip)
            => /\ badHits' = Within(Append(badHits, [ip |-> ip, time |-> now]),
                                    10 * MINUTE, now)
               /\ badHits' # << >> /\ badHits'[Len(badHits')] = [ip |-> ip, time |-> now]
               /\ IF CountWithin(badHits', 10 * MINUTE, now, ip) >= 8
                  THEN /\ ip \in DOMAIN blocked'
                       /\ blocked'[ip] = now + 60 * MINUTE
                  ELSE blocked' = blocked
               /\ OthersKeepEntry(ip)
               /\ hits' = hits ]_vars

\* C14, witness: the 8th bad event of the IP, at 1 minute, set its expiry to 61
\* minutes; the other caller has a bad event and no block entry
C14_Witness ==
    /\ res.step = "markBad" /\ res.ip = IP_A
    /\ now = MINUTE
    /\ CountWithin(badHits, BAD_WINDOW_MS, now, IP_A) = BAD_LIMIT
    /\ countFor(badHits, UNKNOWN) = 1
    /\ DOMAIN blocked = { IP_A } /\ blocked[IP_A] = MINUTE + BLOCK_MS

\* C14, second case: 7 bad events of the IP and one of the other caller make 8
\* in the window, and markBad of the IP has set no block
C14_SevenAndOne ==
    /\ res.step = "markBad" /\ res.ip = IP_A
    /\ CountWithin(badHits, BAD_WINDOW_MS, now, IP_A) = BAD_LIMIT - 1
    /\ countFor(badHits, UNKNOWN) = 1
    /\ blocked = << >>

\* C14, third case: at 10 minutes, with the 5 entries recorded at 0 still in the
\* rate window, markBad has left the one event it appended: any of time 0 is gone
C14_PrunedAtTen ==
    /\ res.step = "markBad" /\ res.ip = IP_A
    /\ now = BAD_WINDOW_MS
    /\ badHits = << [ip |-> IP_A, time |-> now] >>
    /\ CountWithin(hits, 1, 0, IP_A) = MAX_PER_WINDOW
    /\ \A s \in Slots : inflight[s].pc = "idle"

\* C15: isBlocked(ip) returns true iff a stored expiry of the IP is strictly in
\* the future; when it returns false the map holds no entry for the IP
\* afterwards, an expired one having been removed by the lookup; the lookup
\* changes neither the entry of another IP nor the bad-event and rate windows.
C15_IsBlocked ==
    [][ \A ip \in IPs :
            Calls("isBlocked", ip)
            => /\ res'.ret = (ip \in DOMAIN blocked /\ blocked[ip] > now)
               /\ res'.ret => blocked' = blocked
               /\ ~res'.ret => ip \notin DOMAIN blocked'
               /\ OthersKeepEntry(ip)
               /\ hits' = hits /\ badHits' = badHits ]_vars

\* C15, witness: at 61 minutes, the expiry that the 8th bad event set at 1
\* minute, the lookup has returned false and removed the entry
C15_Witness ==
    /\ res.step = "isBlocked" /\ res.ip = IP_A /\ ~res.ret
    /\ now = MINUTE + BLOCK_MS
    /\ CountWithin(badHits, 1, MINUTE, IP_A) = 3 /\ countFor(badHits, IP_A) = BAD_LIMIT
    /\ blocked = << >>

\* C15, second case: the lookup of the blocked IP has returned true and kept
\* the entry
C15_StillBlocked ==
    /\ res.step = "isBlocked" /\ res.ip = IP_A /\ res.ret
    /\ IP_A \in DOMAIN blocked /\ blocked[IP_A] = MINUTE + BLOCK_MS

\* C15, third case: the lookup of the other caller has returned false and left
\* the entry of the blocked IP
C15_OtherLookedUp ==
    /\ res.step = "isBlocked" /\ res.ip = UNKNOWN /\ ~res.ret
    /\ IP_A \in DOMAIN blocked /\ blocked[IP_A] = MINUTE + BLOCK_MS
----------------------------------------------------------------------------
(* Properties of the rejections before the CAPTCHA gate *)

\* the reply is one of the gates before the CAPTCHA gate: wrong method, content
\* type, honeypot, blocked, rate-limited
RejectedBeforeCaptcha(r) ==
    /\ r.step = "entry" /\ r.done
    /\ \/ r.status \in { 405, 403, 429 }
       \/ r.status = 400 /\ r.error = "Send JSON body"
       \/ r.status = 200

\* the step sets no block and moves no expiry: an entry of the map after it was
\* there before it, with the same expiry
NoBlockSetOrExtended ==
    \A ip \in DOMAIN blocked' : ip \in DOMAIN blocked /\ blocked'[ip] = blocked[ip]

\* C16: a request rejected before the CAPTCHA gate (405, 400 content type,
\* honeypot 200, blocked 403, rate-limited 429) records no bad event and sets or
\* extends no block; the honeypot and blocked outcomes also leave the rate
\* window as it is.  So the requests of a rate-limited IP do not get it blocked,
\* and the requests of a blocked IP do not prolong its block.
C16_EarlyRejections ==
    [][ \A r \in AllRequests :
            Arrives(r.id)
            => /\ RejectedBeforeCaptcha(res')
                   => /\ badHits' = badHits
                      /\ NoBlockSetOrExtended
                      /\ res'.status \in { 200, 403 } => hits' = hits
                      /\ res'.status = 429
                             => Within(hits', WINDOW_MS, now) = Within(hits, WINDOW_MS, now)
               /\ BlockedAt(blocked, Parsed[r.id].ip, now)
                   => RejectedBeforeCaptcha(res') \/ ServerError(res')
               /\ ( /\ ReachesBlockGate(r.id)
                    /\ CountWithin(hits, WINDOW_MS, now, Parsed[r.id].ip)
                           >= MAX_PER_WINDOW )
                   => RejectedBeforeCaptcha(res') ]_vars

\* C16, witness: the IP has 5 bad events, all recorded at 0, when a further
\* request is answered 429: no 6th one, no block
C16_Witness ==
    /\ res.step = "entry" /\ res.status = 429
    /\ now = 0
    /\ countFor(badHits, IP_A) = MAX_PER_WINDOW
    /\ countFor(hits, IP_A) = MAX_PER_WINDOW
    /\ blocked = << >>

\* C16, second case: a request of the blocked IP is answered 403; the expiry is
\* the one the 8th bad event set, and the rate window holds the 3 entries of 1 minute
C16_BlockedNotProlonged ==
    /\ res.step = "entry" /\ res.status = 403
    /\ now = MINUTE
    /\ countFor(badHits, IP_A) = BAD_LIMIT
    /\ blocked[IP_A] = MINUTE + BLOCK_MS
    /\ countFor(hits, IP_A) = 3
----------------------------------------------------------------------------
(* Properties of the rate window under interleaving *)

\* the entries of ip in list recorded in the 60 seconds that begin at time t
InSpan(list, ip, t) ==
    SelectSeq(list, LAMBDA e : e.ip = ip /\ t <= e.time /\ e.time < t + 60 * SECOND)

\* the request in r got past the rate gate at its arrival: it was rejected for
\* its missing token, or handler is suspended at the CAPTCHA call
PastRateGate(r) ==
    /\ r.step = "entry"
    /\ \/ r.done /\ r.error = "missing_turnstile_token"
       \/ ~r.done /\ r.calls = << "fetch" >>

C17_ResumedLater ==
    /\ now = MINUTE
    /\ res.step = "fetch" /\ res.ip = IP_A
    /\ Len(InSpan(hits, IP_A, MINUTE)) = MAX_PER_WINDOW
    /\ countFor(hits, IP_A) = MAX_PER_WINDOW
----------------------------------------------------------------------------
(* Properties of the block under run to completion *)

\* the bad events of ip that are less than 10 minutes old after the step
OwnBadEvents(ip) ==
    SelectSeq(badHits', LAMBDA e : e.ip = ip /\ now - e.time < BAD_WINDOW_MS)

\* the step sets the block of ip
BlockSet(ip) ==
    /\ ip \in DOMAIN blocked'
    /\ ip \in DOMAIN blocked => blocked'[ip] # blocked[ip]

\* C18: with each invocation finished before the next begins, the request that
\* records a bad event has recorded its entry in the rate window before, so the
\* 8 bad events that trigger a block span at least 60 seconds: an IP is never
\* blocked less than 60 seconds after its first bad event of the 10-minute
\* window.
C18_BlockTakesAMinute ==
    [][ /\ BadEventStep
               => /\ hits' # << >>
                  /\ hits'[Len(hits')].ip = BadEventIp
                  /\ hits'[Len(hits')].time <= now
                  /\ res'.ip = BadEventIp
        /\ \A ip \in IPs :
               BlockSet(ip)
               => LET own == OwnBadEvents(ip)
                  IN  /\ BadEventStep /\ BadEventIp = ip
                      /\ Len(own) >= 8
                      /\ now - own[Len(own) - 7].time >= 60 * SECOND
                      /\ now - own[1].time >= 60 * SECOND ]_vars

\* C18, witness: 5 bad events at 0 and 3 at 1 minute; the 8th has set the block
\* exactly 60 seconds after the first
C18_Witness ==
    /\ now = MINUTE
    /\ res.error = "missing_turnstile_token"
    /\ countFor(badHits, IP_A) = BAD_LIMIT
    /\ badHits[1].time = 0 /\ badHits[BAD_LIMIT].time = MINUTE
    /\ IP_A \in DOMAIN blocked /\ blocked[IP_A] = MINUTE + BLOCK_MS

\* C18, second case: the 8th bad event is that of an invocation which recorded
\* its entry at 1 minute and whose CAPTCHA was rejected 30 seconds later
C18_Delayed ==
    /\ now = 90 * SECOND
    /\ res.step = "json" /\ res.error = "turnstile_failed"
    /\ countFor(badHits, IP_A) = BAD_LIMIT
    /\ hits[Len(hits)].time = MINUTE
    /\ IP_A \in DOMAIN blocked /\ blocked[IP_A] = now + BLOCK_MS
----------------------------------------------------------------------------
(* Independence of the abuse tracker per IP *)

\* what the tracker holds of ip at time t: its entries of the rate window less
\* than 60 seconds old, its bad events less than 10 minutes old, its block entry
OwnHits(h, ip, t) == SelectSeq(h, LAMBDA e : e.ip = ip /\ t - e.time < WINDOW_MS)

OwnBad(bh, ip, t) == SelectSeq(bh, LAMBDA e : e.ip = ip /\ t - e.time < BAD_WINDOW_MS)

OwnBlock(b, ip) == [x \in { ip } \cap DOMAIN b |-> b[x]]

\* the step is a call of the tracker for ip
CallFor(ip) ==
    /\ res'.ip = ip /\ now' = now
    /\ res'.step \in { "isBlocked", "rateLimited", "markBad" }
    /\ res' # res \/ inflight' # inflight

\* a step that is no call for ip leaves what the tracker holds of ip
OthersLeave(ip) ==
    /\ hits' # hits => OwnHits(hits', ip, now') = OwnHits(hits, ip, now')
    /\ badHits' # badHits => OwnBad(badHits', ip, now') = OwnBad(badHits, ip, now')
    /\ blocked' # blocked => OwnBlock(blocked', ip) = OwnBlock(blocked, ip)

\* a call for ip returns, and leaves of ip, what it does on a tracker that
\* holds the entries of ip alone
AsIfAlone(ip) ==
    /\ res'.step = "isBlocked"
           => LET alone == isBlocked(OwnBlock(blocked, ip), ip, now)
              IN  /\ res'.ret = alone.ret
                  /\ OwnBlock(blocked', ip) = alone.blocked
                  /\ hits' = hits /\ badHits' = badHits
    /\ res'.step = "rateLimited"
           => LET alone == rateLimited(OwnHits(hits, ip, now), ip, now)
              IN  /\ res'.ret = alone.ret
                  /\ OwnHits(hits', ip, now) = alone.hits
                  /\ blocked' = blocked /\ badHits' = badHits
    /\ res'.step = "markBad"
           => LET alone == markBad(OwnBad(badHits, ip, now), OwnBlock(blocked, ip), ip, now)
              IN  /\ OwnBad(badHits', ip, now) = alone.badHits
                  /\ OwnBlock(blocked', ip) = alone.blocked
                  /\ hits' = hits

\* C19: the tracker is independent per IP.  Every call made for a request of an
\* IP returns what it would return, and leaves of that IP what it would leave,
\* had the tracker held the entries of that IP alone; and the calls made for
\* other IPs, like the passing of time, leave the entries of the IP that still
\* count and its block entry as they are.  So two histories with the same
\* requests of the IP at the same times give each of them the same block and
\* rate-limit outcome, whatever the other IPs request.
C19_IndependentPerIp ==
    [][ \A ip \in IPs : IF CallFor(ip) THEN AsIfAlone(ip) ELSE OthersLeave(ip) ]_vars

\* C19, witness: while the IP is blocked and its entries fill the rate window,
\* a request of the other caller has passed the block gate and the rate gate
C19_Witness ==
    /\ res.step = "rateLimited" /\ res.ip = UNKNOWN /\ ~res.ret
    /\ IP_A \in DOMAIN blocked /\ now < blocked[IP_A]
    /\ Len(OwnHits(hits, IP_A, now)) = MAX_PER_WINDOW
    /\ UNKNOWN \notin DOMAIN blocked

\* C19, second case: with 4 entries of the IP and 1 of the other caller in the
\* window, 5 in all, the request of the IP has passed the rate gate
C19_FourAndOne ==
    /\ res.step = "rateLimited" /\ res.ip = IP_A /\ ~res.ret
    /\ Len(OwnHits(hits, IP_A, now)) = MAX_PER_WINDOW
    /\ Len(OwnHits(hits, UNKNOWN, now)) = 1
    /\ hits[Len(hits)].ip = IP_A /\ hits[1].ip = UNKNOWN

\* C19, third case: a bad event of the other caller is recorded while the IP is
\* blocked, and the block of the IP stays
C19_BlockStays ==
    /\ res.step = "markBad" /\ res.ip = UNKNOWN
    /\ DOMAIN blocked = { IP_A } /\ blocked[IP_A] = MINUTE + BLOCK_MS
    /\ now = MINUTE
====
